---- MODULE Spec2Model ----
(***************************************************************************)
(* Go rules engine of anh627/choicovayonline: the GoBoard component        *)
(* (src/src/components/GoBoard.tsx) and its rules module                   *)
(* (src/src/game/rules/goRules.ts).                                        *)
(*                                                                         *)
(* Conventions.                                                            *)
(*  - A cell is the pair <<row, col>>, 0-based as in the code; a board is  *)
(*    a function from cells to {EMPTY, BLACK, WHITE}.                      *)
(*  - null (koPosition) is Null.                                           *)
(*  - A GameMove record keeps player, row, col, captures, isPass; its      *)
(*    timestamp (Date.now()) is read by no rule and is left out.           *)
(*  - Every handler runs to completion between two renders, so a handler   *)
(*    is one atomic action that reads the state of the current render.     *)
(*    The handlers are called from the board cells, the buttons and the    *)
(*    keyboard shortcuts; the key P calls handlePass in a finished game    *)
(*    too (only the button is disabled then). The timers of loadSGF are    *)
(*    not part of the specifications below.                                *)
(***************************************************************************)
EXTENDS Integers, Sequences, FiniteSets, TLC

\* ---------------------------------------------------------------- bounds
\* Side of the board (the program offers 9, 13 and 19).
BoardSize == 3
\* Number of handler calls explored after the opening position.
MaxOps == 2
\* Largest number of stones on a board handed to the rules functions.
MaxStones == 5

\* ------------------------------------------------------------- constants
EMPTY == 0
BLACK == 1
WHITE == 2

Null == <<>>

Rows == 0 .. (BoardSize - 1)
Pos == Rows \X Rows
Players == {BLACK, WHITE}

\* const directions = [[-1, 0], [1, 0], [0, -1], [0, 1]]
directions == << <<-1, 0>>, <<1, 0>>, <<0, -1>>, <<0, 1>> >>

\* adjRow >= 0 && adjRow < boardSize && adjCol >= 0 && adjCol < boardSize
InBounds(r, c) == r >= 0 /\ r < BoardSize /\ c >= 0 /\ c < BoardSize

\* The in-bounds neighbours of (row, col), in the order of `directions`.
Adjacent(row, col) ==
    LET all == [i \in 1..4 |-> <<row + directions[i][1], col + directions[i][2]>>]
    IN  SelectSeq(all, LAMBDA q : InBounds(q[1], q[2]))

\* Array(size).fill(null).map(() => Array(size).fill(EMPTY))
initializeBoard == [p \in Pos |-> EMPTY]

Other(player) == IF player = BLACK THEN WHITE ELSE BLACK

\* ------------------------------------------------------------ goRules.ts
\* A value that a loop carries from one iteration to the next is bound by
\* CHOOSE r \in {F(x) : x \in {e}} : TRUE, which is F(e) with e computed once.

\* Mutant of hasLibertiesStep: a cell taken from the queue is not tested
\* against visited.
hasLibertiesStepNoVisitedTest(b, color, st) ==
    LET p == Head(st.queue)
        adj == Adjacent(p[1], p[2])
        vis == st.visited \cup {p}
    IN  [queue |-> Tail(st.queue)
                     \o SelectSeq(adj, LAMBDA q : b[q] = color /\ q \notin vis),
         visited |-> vis,
         group |-> Append(st.group, p),
         hasLiberty |-> st.hasLiberty
                          \/ \E i \in 1..Len(adj) : b[adj[i]] = EMPTY]

\* One iteration of the while loop of hasLiberties; st carries queue,
\* visited, group and hasLiberty.
hasLibertiesStep(b, color, st) ==
    LET p == Head(st.queue)
        adj == Adjacent(p[1], p[2])
        vis == st.visited \cup {p}
    IN  IF p \in st.visited
        THEN [st EXCEPT !.queue = Tail(st.queue)]
        ELSE [queue |-> Tail(st.queue)
                          \o SelectSeq(adj, LAMBDA q : b[q] = color /\ q \notin vis),
              visited |-> vis,
              group |-> Append(st.group, p),
              hasLiberty |-> st.hasLiberty
                               \/ \E i \in 1..Len(adj) : b[adj[i]] = EMPTY]

\* The while loop of hasLiberties: a breadth-first flood fill over the queue.
RECURSIVE hasLibertiesLoop(_, _, _)
hasLibertiesLoop(b, color, st) ==
    IF st.queue = <<>>
    THEN [hasLiberty |-> st.hasLiberty, group |-> st.group]
    ELSE CHOOSE r \in {hasLibertiesLoop(b, color, next) :
                          next \in {hasLibertiesStep(b, color, st)}} : TRUE

hasLiberties(b, startRow, startCol) ==
    LET color == b[<<startRow, startCol>>]
    IN  IF color = EMPTY
        THEN [hasLiberty |-> FALSE, group |-> <<>>]
        ELSE hasLibertiesLoop(b, color,
                              [queue |-> << <<startRow, startCol>> >>,
                               visited |-> {}, group |-> <<>>,
                               hasLiberty |-> FALSE])

\* The for loop of isSuicideMove over the adjacent cells adj: FALSE as soon
\* as an adjacent opponent group has no liberty, else TRUE.
RECURSIVE isSuicideLoop(_, _, _)
isSuicideLoop(testBoard, adj, player) ==
    IF adj = <<>>
    THEN TRUE
    ELSE LET q == Head(adj)
             adjStone == testBoard[q]
         IN  IF adjStone # EMPTY /\ adjStone # player
                /\ ~hasLiberties(testBoard, q[1], q[2]).hasLiberty
             THEN FALSE
             ELSE isSuicideLoop(testBoard, Tail(adj), player)

\* Mutant of isSuicideMove: the captures of the placement not looked at.
isSuicideMoveIgnoresCaptures(b, row, col, player) ==
    ~hasLiberties([b EXCEPT ![<<row, col>>] = player], row, col).hasLiberty

isSuicideMove(b, row, col, player) ==
    CHOOSE r \in
        {IF hasLiberties(testBoard, row, col).hasLiberty
         THEN FALSE
         ELSE isSuicideLoop(testBoard, Adjacent(row, col), player) :
            testBoard \in {[b EXCEPT ![<<row, col>>] = player]}} : TRUE

\* Mutant of removeGroup: the cells pushed and counted, and left on the board.
removeGroupKeepsStones(acc, group) ==
    [newBoard |-> acc.newBoard,
     capturedPositions |-> acc.capturedPositions \o group,
     captures |-> acc.captures + Len(group)]

\* The body of the for loop of checkCaptures for a group without liberty:
\* its cells are set to EMPTY, pushed and counted.
removeGroup(acc, group) ==
    [newBoard |-> [p \in Pos |->
                      IF \E i \in 1..Len(group) : group[i] = p
                      THEN EMPTY ELSE acc.newBoard[p]],
     capturedPositions |-> acc.capturedPositions \o group,
     captures |-> acc.captures + Len(group)]

\* One iteration of the for loop of checkCaptures, for the adjacent cell q;
\* acc carries newBoard, capturedPositions and captures.
checkCapturesStep(acc, q, player) ==
    IF acc.newBoard[q] # EMPTY /\ acc.newBoard[q] # player
    THEN CHOOSE r \in
             {IF ~res.hasLiberty THEN removeGroup(acc, res.group) ELSE acc :
                 res \in {hasLiberties(acc.newBoard, q[1], q[2])}} : TRUE
    ELSE acc

RECURSIVE checkCapturesLoop(_, _, _)
checkCapturesLoop(acc, adj, player) ==
    IF adj = <<>>
    THEN acc
    ELSE CHOOSE r \in {checkCapturesLoop(next, Tail(adj), player) :
                          next \in {checkCapturesStep(acc, Head(adj), player)}} : TRUE

\* Mutant of newKoPosition: a ko position after any capture.
newKoPositionAnyCapture(captures, capturedPositions) ==
    IF captures >= 1 THEN capturedPositions[1] ELSE Null

\* captures === 1 ? { row: capturedPositions[0][0], col: capturedPositions[0][1] } : null
newKoPosition(captures, capturedPositions) ==
    IF captures = 1 THEN capturedPositions[1] ELSE Null

checkCaptures(b, row, col, player) ==
    CHOOSE r \in
        {[newBoard |-> acc.newBoard,
          captures |-> acc.captures,
          capturedPositions |-> acc.capturedPositions,
          koPosition |-> newKoPosition(acc.captures, acc.capturedPositions)] :
            acc \in {checkCapturesLoop(
                        [newBoard |-> b, capturedPositions |-> <<>>, captures |-> 0],
                        Adjacent(row, col), player)}} : TRUE

\* Mutant of isKoViolation: the position compared by reference, never equal.
isKoViolationByReference(ko, row, col) == FALSE

isKoViolation(ko, row, col) ==
    ko # Null /\ ko[1] = row /\ ko[2] = col

\* ------------------------------------------------------------ GoBoard.tsx
VARIABLES
    board, currentPlayer, blackCaptures, whiteCaptures, moveHistory,
    passCount, gameStatus, koPosition, invalidMoveMessage,
    \* history variables of the verification, read by no handler:
    lastOp,   \* the handler call that produced this state
    prev,     \* the game state in which that call was made (state), the call
              \* that had produced it (lastOp) and, of the state before
              \* that, the part undoMove rebuilds (before)
    steps,    \* number of handler calls since the opening position
    \* the search of the hard difficulty (src/unnamed/part_004) that was
    \* posted to its worker and is not answered yet: the board and the
    \* player it was started for, or Null
    pending,
    \* the search of the hard difficulty of src/src/utils/sound.ts, which
    \* runs inside makeAIMove: its phase, the iteration i, the tree and the
    \* playout (simBoard, simPlayer, passes)
    search,
    \* the game record that loadSGF is playing by its timers: the tokens
    \* not played yet and the state of the render loadSGF was called in
    \* (closure), or Null
    sgf,
    \* the timers of 500 ms that the handlers of src/src/utils/sound.ts have
    \* set for makeAIMove in computer mode and that have not fired yet: for
    \* each, the state of the render its makeAIMove belongs to
    replies

gameVars == <<board, currentPlayer, blackCaptures, whiteCaptures, moveHistory,
              passCount, gameStatus, koPosition, invalidMoveMessage>>
vars == <<board, currentPlayer, blackCaptures, whiteCaptures, moveHistory,
          passCount, gameStatus, koPosition, invalidMoveMessage,
          lastOp, prev, steps, pending, search, sgf, replies>>

\* The useState values of the component after construction (and after reset).
NewGame ==
    [board |-> initializeBoard,
     currentPlayer |-> BLACK,
     blackCaptures |-> 0,
     whiteCaptures |-> 0,
     moveHistory |-> <<>>,
     passCount |-> 0,
     gameStatus |-> "Playing",
     koPosition |-> Null,
     invalidMoveMessage |-> ""]

\* No search of the hard difficulty is running (isThinking is false).
NoSearch ==
    [phase |-> "idle", i |-> 0, tree |-> <<>>,
     simBoard |-> initializeBoard, simPlayer |-> BLACK, passes |-> 0]

\* The game state of the current render, as one record.
Cur ==
    [board |-> board,
     currentPlayer |-> currentPlayer,
     blackCaptures |-> blackCaptures,
     whiteCaptures |-> whiteCaptures,
     moveHistory |-> moveHistory,
     passCount |-> passCount,
     gameStatus |-> gameStatus,
     koPosition |-> koPosition,
     invalidMoveMessage |-> invalidMoveMessage]

\* Mutant of rejection: the game-finished guard before the occupied guard.
rejectionStatusFirst(s, row, col) ==
    IF s.gameStatus # "Playing" THEN "Game is finished"
    ELSE IF s.board[<<row, col>>] # EMPTY THEN "Position already occupied"
    ELSE IF isKoViolation(s.koPosition, row, col) THEN "Ko rule violation"
    ELSE IF isSuicideMove(s.board, row, col, s.currentPlayer)
         THEN "Suicide move not allowed"
    ELSE ""

\* Mutant of rejection: no test for suicide.
rejectionNoSuicideTest(s, row, col) ==
    IF s.board[<<row, col>>] # EMPTY THEN "Position already occupied"
    ELSE IF s.gameStatus # "Playing" THEN "Game is finished"
    ELSE IF isKoViolation(s.koPosition, row, col) THEN "Ko rule violation"
    ELSE ""

\* The four guards of handleStonePlacement, in the order of the code: the
\* message of the first one that fails, "" when the placement is accepted.
rejection(s, row, col) ==
    IF s.board[<<row, col>>] # EMPTY THEN "Position already occupied"
    ELSE IF s.gameStatus # "Playing" THEN "Game is finished"
    ELSE IF isKoViolation(s.koPosition, row, col) THEN "Ko rule violation"
    ELSE IF isSuicideMove(s.board, row, col, s.currentPlayer)
         THEN "Suicide move not allowed"
    ELSE ""

\* Mutant of reject: the pass counter reset before the guards.
rejectResetsPassCount(s, message) ==
    [s EXCEPT !.invalidMoveMessage = message, !.passCount = 0]

\* What a guard that fails leaves: setInvalidMoveMessage and return.
reject(s, message) == [s EXCEPT !.invalidMoveMessage = message]

\* Mutant of placementMove: the captures of the move not recorded.
placementMoveNoCaptures(player, row, col, captures) ==
    [player |-> player, row |-> row, col |-> col,
     captures |-> 0, isPass |-> FALSE]

\* const move: GameMove = { player, row, col, timestamp, captures, isPass: false }
placementMove(player, row, col, captures) ==
    [player |-> player, row |-> row, col |-> col,
     captures |-> captures, isPass |-> FALSE]

\* The statements of handleStonePlacement after the guards; cc is what
\* checkCaptures returned for the board with the new stone.
applyPlacement(s, row, col, cc) ==
    [board |-> cc.newBoard,
     currentPlayer |-> IF s.currentPlayer = BLACK THEN WHITE ELSE BLACK,
     blackCaptures |-> IF s.currentPlayer = WHITE /\ cc.captures > 0
                       THEN s.blackCaptures + cc.captures
                       ELSE s.blackCaptures,
     whiteCaptures |-> IF s.currentPlayer = BLACK /\ cc.captures > 0
                       THEN s.whiteCaptures + cc.captures
                       ELSE s.whiteCaptures,
     moveHistory |-> Append(s.moveHistory,
                            placementMove(s.currentPlayer, row, col, cc.captures)),
     passCount |-> 0,
     gameStatus |-> s.gameStatus,
     koPosition |-> cc.koPosition,
     invalidMoveMessage |-> ""]

\* handleStonePlacement(row, col) called in state s: the state it leaves.
handleStonePlacement(s, row, col) ==
    CHOOSE r \in
        {IF message # ""
         THEN reject(s, message)
         ELSE CHOOSE r2 \in
                  {applyPlacement(s, row, col, cc) :
                      cc \in {checkCaptures(
                                 [s.board EXCEPT ![<<row, col>>] = s.currentPlayer],
                                 row, col, s.currentPlayer)}} : TRUE :
            message \in {rejection(s, row, col)}} : TRUE

\* Mutant of handlePass: returns after ending the game, before the flip.
handlePassNoFlipAtEnd(s) ==
    LET newPassCount == s.passCount + 1
        move == [player |-> s.currentPlayer, row |-> -1, col |-> -1,
                 captures |-> 0, isPass |-> TRUE]
    IN  [s EXCEPT !.passCount = newPassCount,
                  !.moveHistory = Append(s.moveHistory, move),
                  !.gameStatus = IF newPassCount >= 2 THEN "Finished" ELSE s.gameStatus,
                  !.currentPlayer = IF newPassCount >= 2 THEN s.currentPlayer
                                    ELSE IF s.currentPlayer = BLACK THEN WHITE ELSE BLACK]

\* handlePass() called in state s.
handlePass(s) ==
    LET newPassCount == s.passCount + 1
        move == [player |-> s.currentPlayer, row |-> -1, col |-> -1,
                 captures |-> 0, isPass |-> TRUE]
    IN  [s EXCEPT !.passCount = newPassCount,
                  !.moveHistory = Append(s.moveHistory, move),
                  !.gameStatus = IF newPassCount >= 2 THEN "Finished" ELSE s.gameStatus,
                  !.currentPlayer = IF s.currentPlayer = BLACK THEN WHITE ELSE BLACK]

\* One iteration of the replay loop of undoMove, for a record that is no
\* pass; acc carries newBoard, newBlackCaptures, newWhiteCaptures and
\* newKoPosition, cc is what checkCaptures returned.
undoReplayMove(acc, move, cc) ==
    [newBoard |-> cc.newBoard,
     newBlackCaptures |-> IF move.player = BLACK
                          THEN acc.newBlackCaptures
                          ELSE acc.newBlackCaptures + cc.captures,
     newWhiteCaptures |-> IF move.player = BLACK
                          THEN acc.newWhiteCaptures + cc.captures
                          ELSE acc.newWhiteCaptures,
     newKoPosition |-> cc.koPosition]

undoReplayStep(acc, move) ==
    IF ~move.isPass
    THEN CHOOSE r \in
             {undoReplayMove(acc, move, cc) :
                 cc \in {checkCaptures(
                            [acc.newBoard EXCEPT ![<<move.row, move.col>>] = move.player],
                            move.row, move.col, move.player)}} : TRUE
    ELSE acc

\* The replay loop of undoMove over newHistory.
RECURSIVE undoReplay(_, _)
undoReplay(acc, hist) ==
    IF hist = <<>>
    THEN acc
    ELSE CHOOSE r \in {undoReplay(next, Tail(hist)) :
                          next \in {undoReplayStep(acc, Head(hist))}} : TRUE

\* newHistory.slice(-2).filter(move => move.isPass).length
recentPasses(newHistory) ==
    LET n == Len(newHistory)
        from == IF n >= 2 THEN n - 1 ELSE 1
    IN  Cardinality({i \in from..n : newHistory[i].isPass})

\* Mutant of undoCurrentPlayer: the player to move left as it is.
undoCurrentPlayerStale(s) == s.currentPlayer

\* const lastMove = moveHistory[moveHistory.length - 1]; setCurrentPlayer(lastMove.player)
undoCurrentPlayer(s) == s.moveHistory[Len(s.moveHistory)].player

\* Mutant of undoGameStatus: the status left as it is.
undoGameStatusKept(s) == s.gameStatus

\* if (gameStatus === 'Finished') { setGameStatus('Playing'); setShowScore(false); }
undoGameStatus(s) == IF s.gameStatus = "Finished" THEN "Playing" ELSE s.gameStatus

\* The statements of undoMove after the replay loop.
undoRebuild(s, newHistory, acc) ==
    [board |-> acc.newBoard,
     currentPlayer |-> undoCurrentPlayer(s),
     blackCaptures |-> acc.newBlackCaptures,
     whiteCaptures |-> acc.newWhiteCaptures,
     moveHistory |-> newHistory,
     passCount |-> recentPasses(newHistory),
     gameStatus |-> undoGameStatus(s),
     koPosition |-> acc.newKoPosition,
     invalidMoveMessage |-> s.invalidMoveMessage]

\* Mutant of undoNewHistory: the last two records dropped.
undoNewHistoryDropsTwo(s) ==
    SubSeq(s.moveHistory, 1,
           IF Len(s.moveHistory) >= 2 THEN Len(s.moveHistory) - 2 ELSE 0)

\* const newHistory = moveHistory.slice(0, -1)
undoNewHistory(s) == SubSeq(s.moveHistory, 1, Len(s.moveHistory) - 1)

\* Mutant of undoMove: no guard on the empty history; the player to move is
\* flipped back as after any undone move.
undoMoveUnguarded(s) ==
    IF Len(s.moveHistory) = 0
    THEN [s EXCEPT !.currentPlayer = IF s.currentPlayer = BLACK THEN WHITE ELSE BLACK]
    ELSE CHOOSE r \in
             {undoRebuild(s, undoNewHistory(s), acc) :
                 acc \in {undoReplay(
                             [newBoard |-> initializeBoard,
                              newBlackCaptures |-> 0,
                              newWhiteCaptures |-> 0,
                              newKoPosition |-> Null],
                             undoNewHistory(s))}} : TRUE

\* undoMove() called in state s.
undoMove(s) ==
    IF Len(s.moveHistory) = 0
    THEN s
    ELSE CHOOSE r \in
             {undoRebuild(s, undoNewHistory(s), acc) :
                 acc \in {undoReplay(
                             [newBoard |-> initializeBoard,
                              newBlackCaptures |-> 0,
                              newWhiteCaptures |-> 0,
                              newKoPosition |-> Null],
                             undoNewHistory(s))}} : TRUE

\* Mutant of resetGame: the ko position not cleared.
resetGameKeepsKo(s) == [NewGame EXCEPT !.koPosition = s.koPosition]

\* resetGame() -> resetGameWithSize(boardSize), the size kept.
resetGame(s) == NewGame

\* --------------------------------------------------------- calculateScore
\* The cells of the board in the order of the two nested for loops.
Cells == [i \in 1..(BoardSize * BoardSize) |->
             <<(i - 1) \div BoardSize, (i - 1) % BoardSize>>]

\* Mutant of floodFillOwner: a region that borders Black is Black's.
floodFillOwnerBlackFirst(borderColors) ==
    IF BLACK \in borderColors THEN BLACK
    ELSE IF WHITE \in borderColors THEN WHITE
    ELSE EMPTY

\* let owner = EMPTY; if (borderColors.size === 1) owner = Array.from(borderColors)[0]
floodFillOwner(borderColors) ==
    IF Cardinality(borderColors) = 1
    THEN CHOOSE c \in borderColors : TRUE
    ELSE EMPTY

\* One iteration of the while loop of floodFill; st carries queue, visited,
\* territory and borderColors.
floodFillStep(b, st) ==
    LET p == Head(st.queue)
        vis == st.visited \cup {p}
    IN  IF p \in st.visited
        THEN [st EXCEPT !.queue = Tail(st.queue)]
        ELSE IF b[p] # EMPTY
        THEN [st EXCEPT !.queue = Tail(st.queue),
                        !.borderColors = st.borderColors \cup {b[p]}]
        ELSE [queue |-> Tail(st.queue)
                          \o SelectSeq(Adjacent(p[1], p[2]), LAMBDA q : q \notin vis),
              visited |-> vis,
              territory |-> Append(st.territory, p),
              borderColors |-> st.borderColors]

RECURSIVE floodFillLoop(_, _)
floodFillLoop(b, st) ==
    IF st.queue = <<>>
    THEN [points |-> st.territory,
          owner |-> floodFillOwner(st.borderColors),
          visited |-> st.visited]
    ELSE CHOOSE r \in {floodFillLoop(b, next) : next \in {floodFillStep(b, st)}} : TRUE

\* floodFill(startRow, startCol) of calculateScore; `visited` is the array
\* it shares with the scan, given and returned here.
floodFill(b, visited, start) ==
    IF start \in visited \/ b[start] # EMPTY
    THEN [points |-> <<>>, owner |-> EMPTY, visited |-> visited]
    ELSE floodFillLoop(b, [queue |-> <<start>>, visited |-> visited,
                           territory |-> <<>>, borderColors |-> {}])

\* The body of the two nested for loops of calculateScore for one cell; acc
\* carries visited, blackTerritory and whiteTerritory.
scoreCell(b, acc, p, territory) ==
    [visited |-> territory.visited,
     blackTerritory |-> IF territory.owner = BLACK
                        THEN acc.blackTerritory + Len(territory.points)
                        ELSE acc.blackTerritory,
     whiteTerritory |-> IF territory.owner = WHITE
                        THEN acc.whiteTerritory + Len(territory.points)
                        ELSE acc.whiteTerritory]

scoreStep(b, acc, p) ==
    IF p \notin acc.visited /\ b[p] = EMPTY
    THEN CHOOSE r \in {scoreCell(b, acc, p, territory) :
                          territory \in {floodFill(b, acc.visited, p)}} : TRUE
    ELSE acc

RECURSIVE scoreLoop(_, _, _)
scoreLoop(b, acc, cells) ==
    IF cells = <<>>
    THEN acc
    ELSE CHOOSE r \in {scoreLoop(b, next, Tail(cells)) :
                          next \in {scoreStep(b, acc, Head(cells))}} : TRUE

\* calculateScore() in a render whose board and capture counters are those
\* of s.
calculateScore(s) ==
    CHOOSE r \in
        {[blackScore |-> acc.blackTerritory + s.blackCaptures,
          whiteScore |-> acc.whiteTerritory + s.whiteCaptures,
          blackTerritory |-> acc.blackTerritory,
          whiteTerritory |-> acc.whiteTerritory] :
            acc \in {scoreLoop(s.board,
                               [visited |-> {}, blackTerritory |-> 0,
                                whiteTerritory |-> 0],
                               Cells)}} : TRUE

\* ------------------------------------------------------------------ the AI
\* Mutant of isValidMove: the ko position not looked at.
isValidMoveNoKo(s, row, col) ==
    /\ s.board[<<row, col>>] = EMPTY
    /\ s.gameStatus = "Playing"
    /\ ~isSuicideMove(s.board, row, col, s.currentPlayer)

\* isValidMove(row, col) in the render whose state is s.
isValidMove(s, row, col) ==
    /\ s.board[<<row, col>>] = EMPTY
    /\ s.gameStatus = "Playing"
    /\ ~isKoViolation(s.koPosition, row, col)
    /\ ~isSuicideMove(s.board, row, col, s.currentPlayer)

\* STAR_POINTS[boardSize], laid out as on the 9 x 9 board: the four points
\* at lines 2 and boardSize - 3, then the centre.
STAR_POINTS ==
    LET lo == 2
        hi == BoardSize - 3
        mid == BoardSize \div 2
    IN  << <<lo, lo>>, <<lo, hi>>, <<hi, lo>>, <<hi, hi>>, <<mid, mid>> >>

\* validMoves of makeRandomMove: the cells that pass isValidMove, in scan order.
validMoves(s) == SelectSeq(Cells, LAMBDA p : isValidMove(s, p[1], p[2]))

\* makeRandomMove: the values it can return, one for every value of
\* Math.random(); null when there is no valid move.
makeRandomMove(s) ==
    LET moves == validMoves(s)
    IN  IF Len(moves) = 0 THEN {Null} ELSE {moves[i] : i \in 1..Len(moves)}

\* liberties.size in makeHeuristicMove: the empty cells of testBoard next to
\* a cell of group.
libertyCount(testBoard, group) ==
    Cardinality({q \in Pos :
        /\ testBoard[q] = EMPTY
        /\ \E i \in 1..Len(group), d \in 1..4 :
              q = <<group[i][1] + directions[d][1], group[i][2] + directions[d][2]>>})

\* The body of the scan of makeHeuristicMove for a valid cell p whose new
\* group is res; best carries bestMove and maxLiberties.
heuristicCell(best, p, testBoard, res) ==
    IF res.hasLiberty
    THEN CHOOSE r \in
             {IF liberties > best.maxLiberties
              THEN [bestMove |-> p, maxLiberties |-> liberties]
              ELSE best :
                 liberties \in {libertyCount(testBoard, res.group)}} : TRUE
    ELSE best

heuristicStep(s, best, p) ==
    IF isValidMove(s, p[1], p[2])
    THEN CHOOSE r \in
             {CHOOSE r2 \in {heuristicCell(best, p, testBoard, res) :
                                res \in {hasLiberties(testBoard, p[1], p[2])}} : TRUE :
                 testBoard \in {[s.board EXCEPT ![p] = s.currentPlayer]}} : TRUE
    ELSE best

RECURSIVE heuristicLoop(_, _, _)
heuristicLoop(s, best, cells) ==
    IF cells = <<>>
    THEN best
    ELSE CHOOSE r \in {heuristicLoop(s, next, Tail(cells)) :
                          next \in {heuristicStep(s, best, Head(cells))}} : TRUE

\* Mutant of heuristicResult: no fall back to makeRandomMove.
heuristicResultNoFallback(s, bestMove) == {bestMove}

\* if (bestMove) return bestMove; return makeRandomMove(...)
heuristicResult(s, bestMove) ==
    IF bestMove # Null THEN {bestMove} ELSE makeRandomMove(s)

\* makeHeuristicMove of game/ai/index.ts: the values it can return.
makeHeuristicMove(s) ==
    LET totalMoves == Cardinality({p \in Pos : s.board[p] # 0})
        stars == SelectSeq(STAR_POINTS, LAMBDA p : isValidMove(s, p[1], p[2]))
    IN  IF totalMoves < 10 /\ Len(stars) > 0
        THEN {stars[1]}
        ELSE CHOOSE r \in
                 {heuristicResult(s, best.bestMove) :
                     best \in {heuristicLoop(s, [bestMove |-> Null, maxLiberties |-> -1],
                                             Cells)}} : TRUE

\* -Infinity of evaluateMove and of bestScore: below every score.
MinusInfinity == -1000000

\* evaluateMove of the second makeHeuristicMove of the repository
\* (src/unnamed/part_002), once cc = checkCaptures(testBoard, ...) and
\* res = hasLiberties(testBoard, ...) are known.
evaluateMoveScore(b, row, col, opponent, testBoard, cc, res) ==
    LET adj == Adjacent(row, col)
        adjacentOpponent == Cardinality({i \in 1..Len(adj) : b[adj[i]] = opponent})
        isCorner == (row = 0 \/ row = BoardSize - 1) /\ (col = 0 \/ col = BoardSize - 1)
        isEdge == (row = 0 \/ row = BoardSize - 1) \/ (col = 0 \/ col = BoardSize - 1)
    IN  IF ~res.hasLiberty
        THEN MinusInfinity
        ELSE (IF cc.captures > 0 THEN 100 + cc.captures * 10 ELSE 0)
             + libertyCount(testBoard, res.group) * 5
             + adjacentOpponent * 3
             + (IF BoardSize = 19 /\ isCorner /\ adjacentOpponent = 0 THEN -20
                ELSE IF BoardSize = 19 /\ isEdge /\ adjacentOpponent = 0 THEN -5
                ELSE 0)

evaluateMove(b, row, col, player, opponent) ==
    CHOOSE r \in
        {CHOOSE r2 \in
             {CHOOSE r3 \in
                  {evaluateMoveScore(b, row, col, opponent, testBoard, cc, res) :
                      res \in {hasLiberties(testBoard, row, col)}} : TRUE :
                 cc \in {checkCaptures(testBoard, row, col, player)}} : TRUE :
            testBoard \in {[b EXCEPT ![<<row, col>>] = player]}} : TRUE

\* The body of the scan of that makeHeuristicMove for the cell p; best
\* carries bestMove and bestScore.
evalStep(s, best, p) ==
    IF isValidMove(s, p[1], p[2])
    THEN CHOOSE r \in
             {IF score > best.bestScore
              THEN [bestMove |-> p, bestScore |-> score]
              ELSE best :
                 score \in {evaluateMove(s.board, p[1], p[2], s.currentPlayer,
                                         IF s.currentPlayer = BLACK THEN WHITE ELSE BLACK)}} : TRUE
    ELSE best

RECURSIVE evalLoop(_, _, _)
evalLoop(s, best, cells) ==
    IF cells = <<>>
    THEN best
    ELSE CHOOSE r \in {evalLoop(s, next, Tail(cells)) :
                          next \in {evalStep(s, best, Head(cells))}} : TRUE

\* makeHeuristicMove of src/unnamed/part_002: the values it can return.
makeHeuristicMoveEval(s) ==
    LET totalStones == Cardinality({p \in Pos : s.board[p] # EMPTY})
        stars == SelectSeq(STAR_POINTS, LAMBDA p : isValidMove(s, p[1], p[2]))
        early == totalStones < (IF 8 < BoardSize THEN 8 ELSE BoardSize)
    IN  IF early /\ Len(stars) > 0
        THEN {stars[1]}
        ELSE CHOOSE r \in
                 {heuristicResult(s, best.bestMove) :
                     best \in {evalLoop(s, [bestMove |-> Null,
                                            bestScore |-> MinusInfinity],
                                        Cells)}} : TRUE

\* makeHeuristicMove of src/unnamed/part_003: the first valid star point,
\* else makeRandomMove.
makeHeuristicMoveStar(s) ==
    LET stars == SelectSeq(STAR_POINTS, LAMBDA p : isValidMove(s, p[1], p[2]))
    IN  IF Len(stars) > 0 THEN {stars[1]} ELSE makeRandomMove(s)

\* The values the makeHeuristicMove that '../game/ai' exports can return:
\* the repository holds three functions of that name.
heuristicMoves(s) ==
    makeHeuristicMove(s) \cup makeHeuristicMoveEval(s) \cup makeHeuristicMoveStar(s)

\* The move makeAIMove asks for: makeRandomMove when the difficulty is easy,
\* makeHeuristicMove when it is medium.
aiMoves(s, difficulty) ==
    IF difficulty = "easy" THEN makeRandomMove(s)
    ELSE IF difficulty = "medium" THEN heuristicMoves(s)
    ELSE {Null}

\* makeAIMove() once aiMove is known: the stone is placed through
\* handleStonePlacement, and null is a pass.
makeAIMove(s, aiMove) ==
    IF aiMove # Null
    THEN handleStonePlacement(s, aiMove[1], aiMove[2])
    ELSE handlePass(s)

\* Mutant of scoreClick: showing the score ends the game, as the second
\* pass does.
scoreClickEndsGame(s) == [s EXCEPT !.gameStatus = "Finished"]

\* The game state after the onClick of the Calculate Score button:
\* calculateScore reads board and counters into locals, and the handler
\* sets gameScore and showScore only.
scoreClick(s) == s

\* ------------------------------------------------------ opening positions
\* A game record is played from the new game through the handlers; the
\* positions so reached are the positions exploration starts from.
P(r, c) == <<"place", r, c>>
PASS == <<"pass">>
UNDO == <<"undo">>

Openings ==
    { <<>>,
      \* White to capture the corner stone (0,0) at (1,0)
      << P(0,0), P(0,1), PASS >>,
      \* Black to capture (0,0) at (0,1), which leaves a ko
      << P(1,0), P(1,1), PASS, P(0,2), PASS, P(0,0) >>,
      \* that capture made: koPosition is (0,0), White to move
      << P(1,0), P(1,1), PASS, P(0,2), PASS, P(0,0), P(0,1) >>,
      \* White to capture (0,0) and (0,2) at (0,1)
      << P(0,0), P(1,0), P(0,2), P(1,2), PASS >>,
      \* White at (0,0) would be suicide, after a pass of Black
      << P(0,1), P(2,2), P(1,0), P(2,1), PASS >>,
      \* a pass, a stone, a pass
      << PASS, P(1,1), PASS >>,
      \* three passes, the third undone, then a stone
      << PASS, PASS, PASS, UNDO, P(0,0) >>,
      \* Black everywhere but at (0,1) and (2,2), White to move and without
      \* a valid move
      << P(0,0), PASS, P(0,2), PASS, P(1,0), PASS, P(1,1), PASS,
         P(1,2), PASS, P(2,0), PASS, P(2,1) >>,
      \* the same after White's pass and Black's (2,2): White's only valid
      \* move is (0,1), which captures and has no liberty before it does
      << P(0,0), PASS, P(0,2), PASS, P(1,0), PASS, P(1,1), PASS,
         P(1,2), PASS, P(2,0), PASS, P(2,1), PASS, P(2,2) >> }

PlayOp(s, op) ==
    IF op[1] = "place" THEN handleStonePlacement(s, op[2], op[3])
    ELSE IF op[1] = "pass" THEN handlePass(s)
    ELSE undoMove(s)

RECURSIVE Play(_, _)
Play(s, script) ==
    IF script = <<>>
    THEN s
    ELSE CHOOSE r \in {Play(t, Tail(script)) : t \in {PlayOp(s, Head(script))}} : TRUE

\* ---------------------------------------------------------------- actions
\* The part of the game state that undoMove rebuilds.
Restorable(s) ==
    [board |-> s.board, blackCaptures |-> s.blackCaptures,
     whiteCaptures |-> s.whiteCaptures, koPosition |-> s.koPosition,
     currentPlayer |-> s.currentPlayer]

Snapshot == [state |-> Cur, lastOp |-> lastOp, before |-> Restorable(prev.state)]

Apply(t, op) ==
    /\ board' = t.board
    /\ currentPlayer' = t.currentPlayer
    /\ blackCaptures' = t.blackCaptures
    /\ whiteCaptures' = t.whiteCaptures
    /\ moveHistory' = t.moveHistory
    /\ passCount' = t.passCount
    /\ gameStatus' = t.gameStatus
    /\ koPosition' = t.koPosition
    /\ invalidMoveMessage' = t.invalidMoveMessage
    /\ lastOp' = op
    /\ prev' = Snapshot
    /\ steps' = steps + 1

\* A handler call of the component: no search is posted or answered.
Commit(t, op) ==
    /\ Apply(t, op)
    /\ UNCHANGED <<pending, search, sgf, replies>>

Init ==
    \E script \in Openings : \E s \in {Play(NewGame, script)} :
            /\ board = s.board
            /\ currentPlayer = s.currentPlayer
            /\ blackCaptures = s.blackCaptures
            /\ whiteCaptures = s.whiteCaptures
            /\ moveHistory = s.moveHistory
            /\ passCount = s.passCount
            /\ gameStatus = s.gameStatus
            /\ koPosition = s.koPosition
            /\ invalidMoveMessage = s.invalidMoveMessage
            /\ lastOp = [op |-> "init", row |-> -1, col |-> -1]
            /\ prev = [state |-> s, lastOp |-> [op |-> "init", row |-> -1, col |-> -1],
                       before |-> Restorable(s)]
            /\ steps = 0
            /\ pending = Null
            /\ search = NoSearch
            /\ sgf = Null
            /\ replies = <<>>

\* A click on cell (row, col). lastOp keeps the isValidMove prop the cell
\* was rendered with, isValidMove(rowIndex, colIndex) of the render the
\* click is made in.
Place(row, col) ==
    /\ steps < MaxOps
    /\ \E t \in {handleStonePlacement(Cur, row, col)} :
           Commit(t, [op |-> "place", row |-> row, col |-> col,
                      valid |-> isValidMove(Cur, row, col)])

Pass ==
    /\ steps < MaxOps
    /\ \E t \in {handlePass(Cur)} :
           Commit(t, [op |-> "pass", row |-> -1, col |-> -1])

Undo ==
    /\ steps < MaxOps
    /\ \E t \in {undoMove(Cur)} :
           Commit(t, [op |-> "undo", row |-> -1, col |-> -1])

Reset ==
    /\ steps < MaxOps
    /\ \E t \in {resetGame(Cur)} :
           Commit(t, [op |-> "reset", row |-> -1, col |-> -1])

\* The effect that clears the message 3000 ms after it was set.
ClearMessage ==
    /\ steps < MaxOps
    /\ invalidMoveMessage # ""
    /\ Commit([Cur EXCEPT !.invalidMoveMessage = ""],
              [op |-> "clearMessage", row |-> -1, col |-> -1])

\* The Calculate Score button: calculateScore() is called and its result
\* shown (setGameScore, setShowScore). lastOp keeps the result, and the
\* result of a second call in the state the first one left.
Score ==
    /\ steps < MaxOps
    /\ \E t \in {scoreClick(Cur)} :
           Commit(t, [op |-> "score", row |-> -1, col |-> -1,
                      result |-> calculateScore(Cur),
                      again |-> calculateScore(t)])

\* makeAIMove() called by the 600 ms timer of the AI's turn or by the AI
\* button; both need a game that is Playing. The difficulty is the one
\* selected, easy or medium. lastOp keeps the values the strategy could
\* return (candidates) and the one it did return (aiMove).
AIMove(difficulty) ==
    /\ steps < MaxOps
    /\ gameStatus = "Playing"
    /\ \E candidates \in {aiMoves(Cur, difficulty)} :
           \E aiMove \in candidates :
               \E t \in {makeAIMove(Cur, aiMove)} :
                   Commit(t, [op |-> "ai", row |-> -1, col |-> -1,
                              difficulty |-> difficulty,
                              candidates |-> candidates, aiMove |-> aiMove])

Next ==
    \/ \E row \in Rows, col \in Rows : Place(row, col)
    \/ Pass
    \/ Undo
    \/ Reset
    \/ ClearMessage
    \/ Score

Spec == Init /\ [][Next]_vars

\* The game continued from the opening position by makeAIMove alone.
NextAI == \E difficulty \in {"easy", "medium"} : AIMove(difficulty)

SpecAI == Init /\ [][NextAI]_vars

\* ------------------------------------------------------- human against AI
\* The game mode is selected while moveHistory is empty and stays; here it
\* is human-vs-ai from the new game on.
InitVsAI == Init /\ moveHistory = <<>>

\* The effect of the AI's turn: with White to move in a game that is
\* Playing it sets a timer of 600 ms, which calls makeAIMove().
AITimer(difficulty) ==
    /\ currentPlayer = WHITE
    /\ AIMove(difficulty)

\* The cells, the buttons and the keys stay live while the timer runs.
NextVsAI ==
    \/ \E row \in Rows, col \in Rows : Place(row, col)
    \/ Pass
    \/ Undo
    \/ Reset
    \/ \E difficulty \in {"easy", "medium"} : AITimer(difficulty)

SpecVsAI == InitVsAI /\ [][NextVsAI]_vars

\* ------------------------------------------------------------- AI against AI
\* In ai-vs-ai mode the effect of the AI's turn sets its timer for either
\* colour, and each move of the game is one that makeRandomMove can return
\* (the difficulty is easy): a pass is made only where it returns null.
\* AiVsAiGame is such a game of BoardSize 3, from the new game on; White
\* passes once, after Black's capture at (1,2) has left White no valid move.
AiVsAiGame ==
    << P(0,0), P(0,1), P(1,2), P(1,0), P(0,2), P(1,1), P(2,1), P(2,2),
       P(0,2), P(0,0), P(1,2), PASS, P(2,0), P(1,0), P(0,0), P(0,1),
       P(1,1), P(2,2), P(0,2), P(1,1), P(2,1) >>

\* The move op is one makeAIMove can make in s with the random strategy.
RandomChoice(s, op) ==
    IF op[1] = "place"
    THEN <<op[2], op[3]>> \in makeRandomMove(s)
    ELSE op[1] = "pass" /\ makeRandomMove(s) = {Null}

\* Every move of script is a random choice in the position it is made in.
RECURSIVE RandomGame(_, _)
RandomGame(s, script) ==
    IF script = <<>>
    THEN TRUE
    ELSE /\ s.gameStatus = "Playing"
         /\ RandomChoice(s, Head(script))
         /\ \E t \in {PlayOp(s, Head(script))} : RandomGame(t, Tail(script))

\* The game is under way: some moves of AiVsAiGame have been made, the
\* last ones are left to the timers.
InitAiVsAi ==
    \E n \in 0..(Len(AiVsAiGame) - 2) :
        \E script \in {SubSeq(AiVsAiGame, 1, n)} :
            /\ RandomGame(NewGame, script)
            /\ \E s \in {Play(NewGame, script)} :
                /\ board = s.board
                /\ currentPlayer = s.currentPlayer
                /\ blackCaptures = s.blackCaptures
                /\ whiteCaptures = s.whiteCaptures
                /\ moveHistory = s.moveHistory
                /\ passCount = s.passCount
                /\ gameStatus = s.gameStatus
                /\ koPosition = s.koPosition
                /\ invalidMoveMessage = s.invalidMoveMessage
                /\ lastOp = [op |-> "init", row |-> -1, col |-> -1]
                /\ prev = [state |-> s, lastOp |-> [op |-> "init", row |-> -1, col |-> -1],
                           before |-> Restorable(s)]
                /\ steps = 0
                /\ pending = Null
                /\ search = NoSearch
                /\ sgf = Null
                /\ replies = <<>>

\* The timer of the AI's turn in ai-vs-ai mode: isAiTurn holds for both
\* colours, and the effect returns unless the game is Playing.
AiVsAiTimer == AIMove("easy")

NextAiVsAi == AiVsAiTimer

\* The timer set is a timer that fires.
SpecAiVsAi == InitAiVsAi /\ [][NextAiVsAi]_vars /\ WF_vars(NextAiVsAi)

\* ------------------------------------- the hard difficulty and its worker
\* makeAIMove of src/unnamed/part_004 is handed the board, the player and
\* the setters of the session; the session's other operations are the
\* handlers above.

\* isValidMove(board, row, col, currentPlayer) of './utils': the cell is
\* empty and the stone is no suicide.
isValidMoveOnBoard(b, row, col, player) ==
    b[<<row, col>>] = EMPTY /\ ~isSuicideMove(b, row, col, player)

\* validMoves of that makeAIMove.
validMovesOnBoard(b, player) ==
    SelectSeq(Cells, LAMBDA p : isValidMoveOnBoard(b, p[1], p[2], player))

\* worker.onmessage with selectedMove = move: the stone is put on the board
\* the search was started with (snapshot), and the setters are called.
workerAnswer(s, snapshot, move) ==
    CHOOSE r \in
        {[s EXCEPT !.whiteCaptures = IF snapshot.currentPlayer = BLACK
                                     THEN s.whiteCaptures + cc.captures
                                     ELSE s.whiteCaptures,
                   !.blackCaptures = IF snapshot.currentPlayer = BLACK
                                     THEN s.blackCaptures
                                     ELSE s.blackCaptures + cc.captures,
                   !.board = cc.newBoard,
                   !.koPosition = cc.koPosition,
                   !.moveHistory = Append(s.moveHistory,
                                          placementMove(snapshot.currentPlayer,
                                                        move[1], move[2], cc.captures)),
                   !.currentPlayer = IF snapshot.currentPlayer = BLACK
                                     THEN WHITE ELSE BLACK,
                   !.passCount = 0] :
            cc \in {checkCaptures(
                       [snapshot.board EXCEPT ![move] = snapshot.currentPlayer],
                       move[1], move[2], snapshot.currentPlayer)}} : TRUE

\* The children the root is given before it is posted, one for each of
\* validMoves, in their order. The worker reads their prior in its
\* selection only, which is not computed here.
rootChildren(b, player) ==
    [k \in 1..Len(validMovesOnBoard(b, player)) |->
        [move |-> validMovesOnBoard(b, player)[k], visits |-> 0, wins |-> 0]]

\* makeAIMove(..., 'hard'): without a valid move it passes through the
\* setters; otherwise it posts the search to a new worker and returns. One
\* search is in flight at a time.
HardAIMove ==
    /\ pending = Null
    /\ IF Len(validMovesOnBoard(board, currentPlayer)) = 0
       THEN /\ steps < MaxOps
            /\ \E t \in {handlePass(Cur)} :
                   Commit(t, [op |-> "hardPass", row |-> -1, col |-> -1])
       ELSE /\ pending' = [board |-> board, currentPlayer |-> currentPlayer,
                            i |-> 0,
                            children |-> rootChildren(board, currentPlayer)]
            /\ UNCHANGED <<gameVars, lastOp, prev, steps, search, sgf, replies>>

\* The worker posts the move of the most visited child of the root, one of
\* the valid moves of the board the search was started with.
WorkerAnswer ==
    /\ pending # Null
    /\ steps < MaxOps
    /\ \E i \in 1..Len(validMovesOnBoard(pending.board, pending.currentPlayer)) :
          \E move \in {validMovesOnBoard(pending.board, pending.currentPlayer)[i]} :
              \E t \in {workerAnswer(Cur, pending, move)} :
                  /\ Apply(t, [op |-> "workerAnswer", row |-> move[1], col |-> move[2],
                               player |-> pending.currentPlayer,
                               snapshot |-> pending.board])
                  /\ pending' = Null
                  /\ UNCHANGED <<search, sgf, replies>>

NextWorker ==
    \/ \E row \in Rows, col \in Rows : Place(row, col)
    \/ Pass
    \/ Undo
    \/ Reset
    \/ HardAIMove
    \/ WorkerAnswer

SpecWorker == Init /\ [][NextWorker]_vars

\* The iterations of the worker. The budget of the code is 10000; the
\* search is followed for MaxIterations of them.
MaxIterations == 2

\* Mutant of bestChildStep: the child with the higher win rate is kept.
bestChildStepByWinRate(best, child) ==
    IF child.wins * (IF best.visits = 0 THEN 1 ELSE best.visits)
          > best.wins * (IF child.visits = 0 THEN 1 ELSE child.visits)
    THEN child ELSE best

\* (best, child) => child.visits > best.visits ? child : best
bestChildStep(best, child) ==
    IF child.visits > best.visits THEN child ELSE best

\* root.children.reduce(..., root.children[0])
RECURSIVE bestChildLoop(_, _)
bestChildLoop(best, children) ==
    IF children = <<>>
    THEN best
    ELSE CHOOSE r \in
             {bestChildLoop(next, Tail(children)) :
                 next \in {bestChildStep(best, Head(children))}} : TRUE

\* const bestMove = root.children.reduce(...).move
bestMove(children) == bestChildLoop(children[1], children).move

\* The counters of the children of the root after one more iteration.
\* Selection descends from the root, which always has children, through
\* one of them: the one the UCT values select, and they depend on the
\* scores of the iterations before, which are Math.random() * 100: any
\* child k. Expansion and simulation work below that child.
\* Backpropagation passes through it on its way to the root: its visits
\* are incremented, and its wins when the random score of its player is
\* the higher one (won).
workerIteration(children, k, won) ==
    [children EXCEPT ![k].visits = @ + 1,
                     ![k].wins = IF won THEN @ + 1 ELSE @]

\* The search is posted for the position of the opening, once.
PostSearch ==
    /\ steps = 0
    /\ HardAIMove

\* One iteration of the for loop of the worker.
WorkerIteration ==
    /\ pending # Null
    /\ pending.i < MaxIterations
    /\ \E k \in 1..Len(pending.children), won \in BOOLEAN :
          pending' = [pending EXCEPT !.i = @ + 1,
                                     !.children = workerIteration(@, k, won)]
    /\ UNCHANGED <<gameVars, lastOp, prev, steps, search, sgf, replies>>

\* After the last iteration the worker posts bestMove, and worker.onmessage
\* places it. lastOp keeps the children of the root as the search left
\* them.
WorkerBestMove ==
    /\ pending # Null
    /\ pending.i = MaxIterations
    /\ steps < MaxOps
    /\ \E move \in {bestMove(pending.children)} :
          \E t \in {workerAnswer(Cur, pending, move)} :
              /\ Apply(t, [op |-> "bestMove", row |-> move[1], col |-> move[2],
                           player |-> pending.currentPlayer,
                           snapshot |-> pending.board,
                           children |-> pending.children])
              /\ pending' = Null
              /\ UNCHANGED <<search, sgf, replies>>

NextMCTS ==
    \/ PostSearch
    \/ WorkerIteration
    \/ WorkerBestMove

SpecMCTS == Init /\ [][NextMCTS]_vars

\* ------------------------------ the hard difficulty of utils/sound.ts
\* makeAIMove of src/src/utils/sound.ts runs its Monte Carlo tree search
\* inside the handler. isValidMove, calculateScore, handlePass and
\* handleStonePlacement are the callbacks of the render makeAIMove was
\* called in: they read the board and the player of that render.

\* const iterations = 1000
iterations == 1000

\* createMCTSNode(board, move, parent, player). Selection descends from the
\* root while the node has children, and expansion adds one child to the
\* node selection ended at, which has none: no node ever has two children,
\* and the tree is the sequence of its nodes from the root down, the
\* parent of a node being the node before it.
createMCTSNode(b, move, player) ==
    [move |-> move, visits |-> 0, wins |-> 0, board |-> b, player |-> player]

\* Selection and expansion of one iteration: the trees they can leave, one
\* for every value of Math.random(). validChildMoves are the cells that
\* pass isValidMove(row, col).
mctsExpand(s, tree) ==
    CHOOSE r \in
        {IF Len(validChildMoves) > 0 /\ tree[Len(tree)].visits > 0
         THEN {Append(tree,
                      createMCTSNode(
                          [tree[Len(tree)].board EXCEPT
                              ![validChildMoves[k]] = tree[Len(tree)].player],
                          validChildMoves[k],
                          IF tree[Len(tree)].player = BLACK THEN WHITE ELSE BLACK)) :
                  k \in 1..Len(validChildMoves)}
         ELSE {tree} :
            validChildMoves \in {validMoves(s)}} : TRUE

\* The search at the head of the while loop of the simulation of iteration
\* i, node being the last node of the tree.
mctsSimulation(i, tree) ==
    [phase |-> "simulation", i |-> i, tree |-> tree,
     simBoard |-> tree[Len(tree)].board,
     simPlayer |-> tree[Len(tree)].player,
     passes |-> 0]

\* One iteration of while (passes < 2): the values of the search it can
\* leave. simValidMoves are the cells that pass isValidMove(r, c).
mctsSimulationStep(s, st) ==
    CHOOSE r \in
        {IF Len(simValidMoves) = 0
         THEN {[st EXCEPT !.passes = st.passes + 1,
                          !.simPlayer = IF st.simPlayer = BLACK THEN WHITE ELSE BLACK]}
         ELSE {[st EXCEPT
                  !.simBoard = checkCaptures(
                                  [st.simBoard EXCEPT ![simValidMoves[k]] = st.simPlayer],
                                  simValidMoves[k][1], simValidMoves[k][2],
                                  st.simPlayer).newBoard,
                  !.simPlayer = IF st.simPlayer = BLACK THEN WHITE ELSE BLACK,
                  !.passes = 0] :
                  k \in 1..Len(simValidMoves)} :
            simValidMoves \in {validMoves(s)}} : TRUE

\* Backpropagation from node to the root, with the scores of calculateScore().
mctsBackpropagate(s, tree) ==
    CHOOSE r \in
        {[k \in 1..Len(tree) |->
             [tree[k] EXCEPT
                !.visits = tree[k].visits + 1,
                !.wins = tree[k].wins
                           + (IF tree[k].player = BLACK /\ score.blackScore > score.whiteScore
                              THEN 1 ELSE 0)
                           + (IF tree[k].player = WHITE /\ score.whiteScore > score.blackScore
                              THEN 1 ELSE 0)]] :
            score \in {calculateScore(s)}} : TRUE

\* root.children.reduce(...).move || null: the move of the only child of the root.
mctsSelectedMove(tree) == IF Len(tree) >= 2 THEN tree[2].move ELSE Null

\* makeAIMove() with the hard difficulty, up to the head of the first
\* simulation: it returns when the game is finished or a search is running,
\* passes when there is no valid move, and else starts iteration 0, whose
\* selection and expansion leave the root.
StartSearch ==
    /\ steps < MaxOps
    /\ gameStatus = "Playing"
    /\ search.phase = "idle"
    /\ IF Len(validMoves(Cur)) = 0
       THEN \E t \in {handlePass(Cur)} :
                Commit(t, [op |-> "searchPass", row |-> -1, col |-> -1])
       ELSE /\ \E tree \in mctsExpand(Cur, <<createMCTSNode(board, Null, currentPlayer)>>) :
                  search' = mctsSimulation(0, tree)
            /\ UNCHANGED <<gameVars, lastOp, prev, steps, pending, sgf, replies>>

\* One iteration of the while loop of the simulation. When it leaves
\* passes at 2 the loop ends: the result is backpropagated, and either the
\* next iteration starts or, after the last one, the selected move is
\* placed and the search is over.
SearchStep ==
    /\ search.phase = "simulation"
    /\ \E s \in {Cur} : \E sim \in mctsSimulationStep(s, search) :
          IF sim.passes < 2
          THEN /\ search' = sim
               /\ UNCHANGED <<gameVars, lastOp, prev, steps, pending, sgf, replies>>
          ELSE \E tree \in {mctsBackpropagate(Cur, sim.tree)} :
                  IF sim.i + 1 < iterations
                  THEN /\ \E next \in mctsExpand(Cur, tree) :
                             search' = mctsSimulation(sim.i + 1, next)
                       /\ UNCHANGED <<gameVars, lastOp, prev, steps, pending, sgf, replies>>
                  ELSE \E selectedMove \in {mctsSelectedMove(tree)} :
                          \E t \in {makeAIMove(Cur, selectedMove)} :
                              /\ Apply(t, [op |-> "search", row |-> -1, col |-> -1,
                                           aiMove |-> selectedMove])
                              /\ search' = NoSearch
                              /\ UNCHANGED <<pending, sgf, replies>>

NextSearch ==
    \/ StartSearch
    \/ SearchStep

\* The handler runs to completion once called: each step of the search is
\* taken as long as the loop it belongs to goes on.
SpecSearch == Init /\ [][NextSearch]_vars /\ WF_vars(NextSearch)

\* ----------------------------------------------------------------- loadSGF
\* A game record is the sequence of the coordinate texts of its move
\* tokens ;B[..] and ;W[..], a text being the sequence of its character
\* codes ('a' is 97). loadSGF reads the colour letter of a token into a
\* constant it never uses.

\* Longest game record handed to loadSGF.
MaxTokens == 3

\* The texts of the tokens of the records: a pass, three cells of the
\* board, a text of one letter and one of three, a cell outside the board
\* and a text with letters after 's'.
SGFTexts ==
    { <<>>, <<97, 97>>, <<98, 97>>, <<97, 98>>,
      <<97>>, <<97, 97, 97>>, <<97, 97 + BoardSize>>, <<116, 116>> }

SGFRecords == UNION {[1..n -> SGFTexts] : n \in 0..MaxTokens}

\* sgfContent.match(/;[BW]\[[a-s]*\]/g): the tokens whose text is made of
\* the letters a to s.
sgfMoves(record) ==
    SelectSeq(record, LAMBDA text : \A k \in 1..Len(text) : text[k] \in 97..115)

\* What playNextMove does with a token: a pass when the text is empty, a
\* placement at col = charCodeAt(0) - 97, row = charCodeAt(1) - 97 when the
\* text has two letters and the cell is on the board, and nothing else.
sgfDecode(text) ==
    IF text = <<>>
    THEN [kind |-> "pass", row |-> -1, col |-> -1]
    ELSE IF Len(text) = 2 /\ InBounds(text[2] - 97, text[1] - 97)
    THEN [kind |-> "place", row |-> text[2] - 97, col |-> text[1] - 97]
    ELSE [kind |-> "skip", row |-> -1, col |-> -1]

\* playNextMove() up to the token it sets a timer for: the tokens it does
\* nothing with are stepped over at once.
RECURSIVE playNextMove(_)
playNextMove(moves) ==
    IF moves = <<>> \/ sgfDecode(Head(moves)).kind # "skip"
    THEN moves
    ELSE playNextMove(Tail(moves))

\* The statements of handleStonePlacement after the guards, the callback
\* being the one of the render whose state is c and the state being s when
\* it is called: what it reads is c, and the setters that are given a
\* function (the capture counters, moveHistory) start from s.
applyPlacementOf(c, s, row, col, cc) ==
    [board |-> cc.newBoard,
     currentPlayer |-> IF c.currentPlayer = BLACK THEN WHITE ELSE BLACK,
     blackCaptures |-> IF c.currentPlayer = WHITE /\ cc.captures > 0
                       THEN s.blackCaptures + cc.captures
                       ELSE s.blackCaptures,
     whiteCaptures |-> IF c.currentPlayer = BLACK /\ cc.captures > 0
                       THEN s.whiteCaptures + cc.captures
                       ELSE s.whiteCaptures,
     moveHistory |-> Append(s.moveHistory,
                            placementMove(c.currentPlayer, row, col, cc.captures)),
     passCount |-> 0,
     gameStatus |-> s.gameStatus,
     koPosition |-> cc.koPosition,
     invalidMoveMessage |-> ""]

\* handleStonePlacement(row, col) of the render whose state is c, called
\* when the state is s.
handleStonePlacementOf(c, s, row, col) ==
    CHOOSE r \in
        {IF message # ""
         THEN [s EXCEPT !.invalidMoveMessage = message]
         ELSE CHOOSE r2 \in
                  {applyPlacementOf(c, s, row, col, cc) :
                      cc \in {checkCaptures(
                                 [c.board EXCEPT ![<<row, col>>] = c.currentPlayer],
                                 row, col, c.currentPlayer)}} : TRUE :
            message \in {rejection(c, row, col)}} : TRUE

\* handlePass() of the render whose state is c, called when the state is s.
handlePassOf(c, s) ==
    [s EXCEPT !.passCount = c.passCount + 1,
              !.moveHistory = Append(s.moveHistory,
                                     [player |-> c.currentPlayer, row |-> -1,
                                      col |-> -1, captures |-> 0, isPass |-> TRUE]),
              !.gameStatus = IF c.passCount + 1 >= 2 THEN "Finished" ELSE s.gameStatus,
              !.currentPlayer = IF c.currentPlayer = BLACK THEN WHITE ELSE BLACK]

\* The callback of a timer of loadSGF for the token text.
sgfPlay(c, s, text) ==
    LET move == sgfDecode(text)
    IN  IF move.kind = "pass" THEN handlePassOf(c, s)
        ELSE handleStonePlacementOf(c, s, move.row, move.col)

\* loadSGF(sgfContent): the game is reset and playNextMove() is called;
\* handleStonePlacement and handlePass of its timers are those of the
\* render loadSGF belongs to.
LoadSGF(record) ==
    /\ steps < MaxOps
    /\ sgf = Null
    /\ \E t \in {resetGame(Cur)} :
           Apply(t, [op |-> "loadSGF", row |-> -1, col |-> -1])
    /\ sgf' = [record |-> record,
               moves |-> playNextMove(sgfMoves(record)),
               closure |-> Cur]
    /\ UNCHANGED <<pending, search, replies>>

\* A timer of playNextMove fires, 300 ms after it was set: the token is
\* played, and playNextMove() is called for the next one.
SGFTimer ==
    /\ sgf # Null
    /\ sgf.moves # <<>>
    /\ \E t \in {sgfPlay(sgf.closure, Cur, Head(sgf.moves))} :
           Apply(t, [op |-> "sgfTimer",
                     row |-> sgfDecode(Head(sgf.moves)).row,
                     col |-> sgfDecode(Head(sgf.moves)).col])
    /\ sgf' = [sgf EXCEPT !.moves = playNextMove(Tail(sgf.moves))]
    /\ UNCHANGED <<pending, search, replies>>

NextSGF ==
    \/ \E record \in SGFRecords : LoadSGF(record)
    \/ SGFTimer

SpecSGF == Init /\ [][NextSGF]_vars

\* ---------------------------------- computer mode of utils/sound.ts
\* The GoGame component of src/src/utils/sound.ts has the rules and the
\* handlers of GoBoard.tsx as callbacks of its own. In computer mode
\* handleStonePlacement and handlePass, called with Black to move, end with
\* setTimeout(() => makeAIMove(), 500); that makeAIMove is the callback of
\* the render the handler belongs to.

\* The body of the loop of the medium difficulty over validMoves, for the
\* move p: best carries bestScore and selectedMove.
soundMediumStep(c, best, p) ==
    CHOOSE r \in
        {IF score > best.bestScore
         THEN [bestScore |-> score, selectedMove |-> p]
         ELSE best :
            score \in
              {checkCaptures(testBoard, p[1], p[2], c.currentPlayer).captures * 10
               + (IF ~hasLiberties(c.board, p[1], p[2]).hasLiberty
                     /\ hasLiberties(testBoard, p[1], p[2]).hasLiberty
                  THEN 5 ELSE 0) :
                 testBoard \in {[c.board EXCEPT ![p] = c.currentPlayer]}}} : TRUE

RECURSIVE soundMediumLoop(_, _, _)
soundMediumLoop(c, best, moves) ==
    IF moves = <<>>
    THEN best
    ELSE CHOOSE r \in
             {soundMediumLoop(c, next, Tail(moves)) :
                 next \in {soundMediumStep(c, best, Head(moves))}} : TRUE

\* The moves makeAIMove can select among validMoves, which is not empty:
\* any of them with the easy difficulty (Math.random), the first one of
\* the highest score with the medium difficulty.
soundSelectedMoves(c, validMovesOfC, difficulty) ==
    IF difficulty = "easy"
    THEN {validMovesOfC[k] : k \in 1..Len(validMovesOfC)}
    ELSE {soundMediumLoop(c, [bestScore |-> MinusInfinity, selectedMove |-> Null],
                          validMovesOfC).selectedMove}

\* The timers left when a handler of the render whose state is c returns:
\* if (gameMode === 'computer' && currentPlayer === BLACK) one more, for
\* the makeAIMove of that render. A rejected placement returns before.
soundTimers(c, accepted) ==
    IF accepted /\ c.currentPlayer = BLACK THEN <<c>> ELSE <<>>

\* A click on cell (row, col) in computer mode: handleStonePlacement of the
\* current render.
ComputerPlace(row, col) ==
    /\ steps < MaxOps
    /\ \E c \in {Cur} : \E t \in {handleStonePlacementOf(c, c, row, col)} :
           /\ Apply(t, [op |-> "place", row |-> row, col |-> col,
                        valid |-> isValidMove(c, row, col)])
           /\ replies' = replies \o soundTimers(c, isValidMove(c, row, col))
    /\ UNCHANGED <<pending, search, sgf>>

\* The Pass button or key P in computer mode: handlePass of the current
\* render.
ComputerPass ==
    /\ steps < MaxOps
    /\ \E c \in {Cur} : \E t \in {handlePassOf(c, c)} :
           /\ Apply(t, [op |-> "pass", row |-> -1, col |-> -1])
           /\ replies' = replies \o soundTimers(c, TRUE)
    /\ UNCHANGED <<pending, search, sgf>>

\* The oldest timer fires: makeAIMove() of the render whose state is c,
\* with the easy or the medium difficulty. It returns at once when the game
\* of that render is not Playing, passes when that render has no valid
\* move, and else places the selected move; handlePass and
\* handleStonePlacement are the callbacks of that render as well, and set
\* their timer again. lastOp keeps the player the callback moved for.
ReplyTimer(difficulty) ==
    /\ steps < MaxOps
    /\ replies # <<>>
    /\ \E c \in {Head(replies)} : \E validMovesOfC \in {validMoves(c)} :
          IF c.gameStatus # "Playing"
          THEN /\ replies' = Tail(replies)
               /\ Apply(Cur, [op |-> "reply", row |-> -1, col |-> -1,
                              player |-> c.currentPlayer, kind |-> "return"])
          ELSE IF Len(validMovesOfC) = 0
          THEN /\ replies' = Tail(replies) \o soundTimers(c, TRUE)
               /\ \E t \in {handlePassOf(c, Cur)} :
                      Apply(t, [op |-> "reply", row |-> -1, col |-> -1,
                                player |-> c.currentPlayer, kind |-> "pass"])
          ELSE \E selectedMove \in soundSelectedMoves(c, validMovesOfC, difficulty) :
                  /\ replies' = Tail(replies) \o soundTimers(c, TRUE)
                  /\ \E t \in {handleStonePlacementOf(c, Cur, selectedMove[1],
                                                        selectedMove[2])} :
                         Apply(t, [op |-> "reply", row |-> selectedMove[1],
                                   col |-> selectedMove[2],
                                   player |-> c.currentPlayer, kind |-> "place"])
    /\ UNCHANGED <<pending, search, sgf>>

NextComputer ==
    \/ \E row \in Rows, col \in Rows : ComputerPlace(row, col)
    \/ ComputerPass
    \/ \E difficulty \in {"easy", "medium"} : ReplyTimer(difficulty)

\* Computer mode is selected in the new game or in a game in progress.
SpecComputer == Init /\ [][NextComputer]_vars

\* ------------------------------------------------ exportSGF and loadSGF
\* The sizes of the board the program offers; the coordinates of a game
\* record are checked on all of them.
BoardSizes == {9, 13, 19}

\* Mutant of sgfPosition: the row letter before the column letter.
sgfPositionRowFirst(move) == <<97 + move.row, 97 + move.col>>

\* String.fromCharCode(97 + move.col) + String.fromCharCode(97 + move.row)
sgfPosition(move) == <<97 + move.col, 97 + move.row>>

\* exportSGF(): the move tokens it writes for moveHistory, in its order;
\* a token is its colour letter and its coordinate text.
exportSGF(history) ==
    [k \in 1..Len(history) |->
        [color |-> IF history[k].player = BLACK THEN "B" ELSE "W",
         text |-> IF history[k].isPass THEN <<>> ELSE sgfPosition(history[k])]]

\* The body of moves.forEach of the loadSGF of hi.ts for one token: a
\* placement when the text has two letters and the cell is on a board of
\* newBoardSize lines, a pass when the text is empty, and nothing else.
loadSGFMove(text, newBoardSize) ==
    IF text # <<>>
    THEN IF Len(text) = 2
            /\ text[2] - 97 >= 0 /\ text[2] - 97 < newBoardSize
            /\ text[1] - 97 >= 0 /\ text[1] - 97 < newBoardSize
         THEN [kind |-> "place", row |-> text[2] - 97, col |-> text[1] - 97]
         ELSE [kind |-> "skip", row |-> -1, col |-> -1]
    ELSE [kind |-> "pass", row |-> -1, col |-> -1]

\* What that loadSGF makes of a sequence of tokens: the moves of those
\* that /;[BW]\[[a-s]*\]/g matches, in their order.
loadSGFMoves(tokens, newBoardSize) ==
    LET moves == sgfMoves([k \in 1..Len(tokens) |-> tokens[k].text])
    IN  [k \in 1..Len(moves) |-> loadSGFMove(moves[k], newBoardSize)]

\* A record of moveHistory on a board of `size` lines.
GameMoves(size) ==
    [player : Players, row : 0..(size - 1), col : 0..(size - 1),
     captures : {0}, isPass : {FALSE}]
    \cup [player : Players, row : {-1}, col : {-1}, captures : {0}, isPass : {TRUE}]

\* The histories handed to exportSGF: any record, alone or followed by a
\* pass or by a stone at the end of the first line.
Histories(size) ==
    {<<m>> : m \in GameMoves(size)}
    \cup {<<m, [player |-> Other(m.player), row |-> -1, col |-> -1,
               captures |-> 0, isPass |-> TRUE]>> : m \in GameMoves(size)}
    \cup {<<m, [player |-> Other(m.player), row |-> 0, col |-> size - 1,
               captures |-> 0, isPass |-> FALSE]>> : m \in GameMoves(size)}

InitCodec ==
    /\ board = NewGame.board
    /\ currentPlayer = NewGame.currentPlayer
    /\ blackCaptures = NewGame.blackCaptures
    /\ whiteCaptures = NewGame.whiteCaptures
    /\ moveHistory = NewGame.moveHistory
    /\ passCount = NewGame.passCount
    /\ gameStatus = NewGame.gameStatus
    /\ koPosition = NewGame.koPosition
    /\ invalidMoveMessage = NewGame.invalidMoveMessage
    /\ \E size \in BoardSizes : \E history \in Histories(size) :
           lastOp = [op |-> "init", row |-> -1, col |-> -1,
                     boardSize |-> size, history |-> history]
    /\ prev = [state |-> NewGame, lastOp |-> [op |-> "init", row |-> -1, col |-> -1],
               before |-> Restorable(NewGame)]
    /\ steps = 0
    /\ pending = Null
    /\ search = NoSearch
    /\ sgf = Null
    /\ replies = <<>>

\* exportSGF() for a history on a board of boardSize lines, and the tokens
\* it wrote read by loadSGF; both results are kept in lastOp.
ExportThenLoad ==
    /\ steps = 0
    /\ \E tokens \in {exportSGF(lastOp.history)} :
           lastOp' = [op |-> "exportSGF", row |-> -1, col |-> -1,
                      boardSize |-> lastOp.boardSize,
                      history |-> lastOp.history,
                      tokens |-> tokens,
                      loaded |-> loadSGFMoves(tokens, lastOp.boardSize)]
    /\ steps' = 1
    /\ UNCHANGED <<gameVars, prev, pending, search, sgf, replies>>

NextCodec == ExportThenLoad

SpecCodec == InitCodec /\ [][NextCodec]_vars

\* ------------------------------------------- the rules functions on their own
\* goRules.ts exports pure functions of (board, row, col, player). Here a
\* board with at most MaxStones stones, in any colours, is handed to them,
\* together with an empty cell and a player. The stones lie in the 3 x 3
\* corner of the board at (0,0), which is the whole board when BoardSize is 3.
StoneCells == {p \in Pos : p[1] <= 2 /\ p[2] <= 2}

BoardWith(S, f) == [p \in Pos |-> IF p \in S THEN f[p] ELSE EMPTY]

InitRules ==
    /\ \E S \in {T \in SUBSET StoneCells : Cardinality(T) <= MaxStones} :
           \E f \in [S -> Players] : board = BoardWith(S, f)
    /\ currentPlayer = NewGame.currentPlayer
    /\ blackCaptures = NewGame.blackCaptures
    /\ whiteCaptures = NewGame.whiteCaptures
    /\ moveHistory = NewGame.moveHistory
    /\ passCount = NewGame.passCount
    /\ gameStatus = NewGame.gameStatus
    /\ koPosition = NewGame.koPosition
    /\ invalidMoveMessage = NewGame.invalidMoveMessage
    /\ lastOp = [op |-> "init", row |-> -1, col |-> -1]
    /\ prev = [state |-> NewGame, lastOp |-> [op |-> "init", row |-> -1, col |-> -1],
               before |-> Restorable(NewGame)]
    /\ steps = 0
    /\ pending = Null
    /\ search = NoSearch
    /\ sgf = Null
    /\ replies = <<>>

\* isSuicideMove(board, row, col, player) on an empty cell, and the guards
\* of handleStonePlacement for that player on that board in a game that is
\* Playing with no ko position; both results are kept in lastOp.
CallIsSuicideMove(row, col, player) ==
    /\ steps = 0
    /\ board[<<row, col>>] = EMPTY
    /\ lastOp' = [op |-> "isSuicideMove", row |-> row, col |-> col,
                  player |-> player,
                  result |-> isSuicideMove(board, row, col, player),
                  message |-> rejection([NewGame EXCEPT !.board = board,
                                                        !.currentPlayer = player],
                                        row, col)]
    /\ steps' = 1
    /\ UNCHANGED <<gameVars, prev, pending, search, sgf, replies>>

\* calculateScore() on the board, the capture counters being 0; the result
\* is kept in lastOp.
CallCalculateScore ==
    /\ steps = 0
    /\ lastOp' = [op |-> "calculateScore", row |-> -1, col |-> -1,
                  result |-> calculateScore(Cur)]
    /\ steps' = 1
    /\ UNCHANGED <<gameVars, prev, pending, search, sgf, replies>>

NextRules ==
    \/ \E row \in Rows, col \in Rows, player \in Players :
           CallIsSuicideMove(row, col, player)
    \/ CallCalculateScore

SpecRules == InitRules /\ [][NextRules]_vars

\* checkCaptures(newBoard, row, col, player) for the board with a stone of
\* player put on the empty cell (row, col); the result is kept in lastOp.
CallCheckCaptures(row, col, player) ==
    /\ steps = 0
    /\ board[<<row, col>>] = EMPTY
    /\ lastOp' = [op |-> "checkCaptures", row |-> row, col |-> col,
                  player |-> player,
                  result |-> checkCaptures([board EXCEPT ![<<row, col>>] = player],
                                           row, col, player)]
    /\ steps' = 1
    /\ UNCHANGED <<gameVars, prev, pending, search, sgf, replies>>

\* hasLiberties(board, row, col) for any cell of the board, a stone or
\* empty; the result is kept in lastOp.
CallHasLiberties(row, col) ==
    /\ steps = 0
    /\ lastOp' = [op |-> "hasLiberties", row |-> row, col |-> col,
                  result |-> hasLiberties(board, row, col)]
    /\ steps' = 1
    /\ UNCHANGED <<gameVars, prev, pending, search, sgf, replies>>

NextCaptures ==
    \/ \E row \in Rows, col \in Rows, player \in Players :
           CallCheckCaptures(row, col, player)
    \/ \E row \in Rows, col \in Rows : CallHasLiberties(row, col)

SpecCaptures == InitRules /\ [][NextCaptures]_vars

\* ------------------------------------------------- tryPlay of GoGame.jsx
\* GoGame.jsx has its own rules: a position is { x, y }, the board is read
\* as board[y][x], and tryPlay(board, x, y, color) is a pure function.

\* getNeighbors(x, y, size), in the order of its directions.
getNeighbors(x, y) ==
    SelectSeq(<< [x |-> x + 1, y |-> y], [x |-> x - 1, y |-> y],
                 [x |-> x, y |-> y + 1], [x |-> x, y |-> y - 1] >>,
              LAMBDA pos : pos.x >= 0 /\ pos.y >= 0
                           /\ pos.x < BoardSize /\ pos.y < BoardSize)

\* The body of the for loop of getGroupAndLiberties for one neighbor.
groupNeighborStep(b, color, st, neighbor) ==
    IF b[<<neighbor.y, neighbor.x>>] = 0
    THEN [st EXCEPT !.liberties = @ \cup {neighbor}]
    ELSE IF b[<<neighbor.y, neighbor.x>>] = color /\ neighbor \notin st.visited
         THEN [st EXCEPT !.visited = @ \cup {neighbor},
                         !.stack = Append(@, neighbor)]
         ELSE st

RECURSIVE groupNeighborLoop(_, _, _, _)
groupNeighborLoop(b, color, st, neighbors) ==
    IF neighbors = <<>>
    THEN st
    ELSE CHOOSE r \in
             {groupNeighborLoop(b, color, next, Tail(neighbors)) :
                 next \in {groupNeighborStep(b, color, st, Head(neighbors))}} : TRUE

\* The while loop of getGroupAndLiberties: stack.pop(), group.push(current)
\* and the for loop over the neighbors of current.
RECURSIVE groupLoop(_, _, _)
groupLoop(b, color, st) ==
    IF st.stack = <<>>
    THEN st
    ELSE CHOOSE r \in
             {groupLoop(b, color, next) :
                 next \in {groupNeighborLoop(
                               b, color,
                               [st EXCEPT !.stack = SubSeq(@, 1, Len(@) - 1),
                                          !.group = Append(@, current)],
                               getNeighbors(current.x, current.y)) :
                              current \in {st.stack[Len(st.stack)]}}} : TRUE

getGroupAndLiberties(b, x, y) ==
    IF b[<<y, x>>] = 0
    THEN [group |-> <<>>, liberties |-> {}]
    ELSE CHOOSE r \in
             {[group |-> st.group, liberties |-> st.liberties] :
                 st \in {groupLoop(b, b[<<y, x>>],
                                   [stack |-> << [x |-> x, y |-> y] >>,
                                    visited |-> {[x |-> x, y |-> y]},
                                    liberties |-> {},
                                    group |-> <<>>])}} : TRUE

\* group.forEach(pos => { testBoard[pos.y][pos.x] = 0; capturedPositions.push(pos) })
RECURSIVE tryPlayRemove(_, _)
tryPlayRemove(acc, group) ==
    IF group = <<>>
    THEN acc
    ELSE CHOOSE r \in
             {tryPlayRemove(next, Tail(group)) :
                 next \in {[acc EXCEPT
                               !.testBoard[<<Head(group).y, Head(group).x>>] = 0,
                               !.capturedPositions = Append(@, Head(group))]}} : TRUE

\* The body of the capture loop of tryPlay for one neighbor.
tryPlayCaptureStep(acc, neighbor, opponent) ==
    IF acc.testBoard[<<neighbor.y, neighbor.x>>] = opponent
    THEN CHOOSE r \in
             {IF gl.liberties = {}
              THEN tryPlayRemove([acc EXCEPT !.totalCaptures = @ + Len(gl.group)],
                                 gl.group)
              ELSE acc :
                 gl \in {getGroupAndLiberties(acc.testBoard, neighbor.x, neighbor.y)}} : TRUE
    ELSE acc

RECURSIVE tryPlayCaptureLoop(_, _, _)
tryPlayCaptureLoop(acc, neighbors, opponent) ==
    IF neighbors = <<>>
    THEN acc
    ELSE CHOOSE r \in
             {tryPlayCaptureLoop(next, Tail(neighbors), opponent) :
                 next \in {tryPlayCaptureStep(acc, Head(neighbors), opponent)}} : TRUE

\* What tryPlay returns for a placement that is not legal: { legal: false }.
tryPlayIllegal ==
    [legal |-> FALSE, board |-> Null, captures |-> 0, capturedPositions |-> <<>>]

\* const isKo = totalCaptures === 1 && capturedPositions.length === 1 &&
\*   getNeighbors(x, y, size).some(n => n is capturedPositions[0])
tryPlayIsKo(acc, x, y) ==
    /\ acc.totalCaptures = 1
    /\ Len(acc.capturedPositions) = 1
    /\ \E k \in 1..Len(getNeighbors(x, y)) :
           getNeighbors(x, y)[k] = acc.capturedPositions[1]

\* The statements of tryPlay after the capture loop.
tryPlayResult(acc, x, y) ==
    IF getGroupAndLiberties(acc.testBoard, x, y).liberties = {}
       /\ acc.totalCaptures = 0
    THEN tryPlayIllegal
    ELSE IF tryPlayIsKo(acc, x, y)
         THEN tryPlayIllegal
         ELSE [legal |-> TRUE, board |-> acc.testBoard,
               captures |-> acc.totalCaptures,
               capturedPositions |-> acc.capturedPositions]

tryPlay(b, x, y, color) ==
    IF b[<<y, x>>] # 0
    THEN tryPlayIllegal
    ELSE CHOOSE r \in
             {tryPlayResult(acc, x, y) :
                 acc \in {tryPlayCaptureLoop(
                              [testBoard |-> [b EXCEPT ![<<y, x>>] = color],
                               totalCaptures |-> 0,
                               capturedPositions |-> <<>>],
                              getNeighbors(x, y),
                              IF color = 1 THEN 2 ELSE 1)}} : TRUE

\* tryPlay(board, x, y, color) for any cell of the board and either colour;
\* the result is kept in lastOp.
CallTryPlay(x, y, color) ==
    /\ steps = 0
    /\ lastOp' = [op |-> "tryPlay", row |-> y, col |-> x, color |-> color,
                  result |-> tryPlay(board, x, y, color)]
    /\ steps' = 1
    /\ UNCHANGED <<gameVars, prev, pending, search, sgf, replies>>

NextTryPlay == \E x \in Rows, y \in Rows, color \in Players : CallTryPlay(x, y, color)

SpecTryPlay == InitRules /\ [][NextTryPlay]_vars

\* ------------------------------------ makeHeuristicMove of part_002
\* makeHeuristicMove(board, currentPlayer, boardSize, isValidMove) of
\* src/unnamed/part_002 for the board and either player, isValidMove being
\* the callback of a game that is Playing with no ko position; lastOp keeps
\* the move returned, one for every value Math.random can take in the
\* fall back.
CallMakeHeuristicMove(player) ==
    /\ steps = 0
    /\ \E s \in {[NewGame EXCEPT !.board = board, !.currentPlayer = player]} :
          \E move \in makeHeuristicMoveEval(s) :
              lastOp' = [op |-> "makeHeuristicMove",
                         row |-> IF move = Null THEN -1 ELSE move[1],
                         col |-> IF move = Null THEN -1 ELSE move[2],
                         player |-> player, move |-> move]
    /\ steps' = 1
    /\ UNCHANGED <<gameVars, prev, pending, search, sgf, replies>>

NextHeuristic == \E player \in Players : CallMakeHeuristicMove(player)

\* The boards handed to makeHeuristicMove: any number of stones in the
\* corner of StoneCells, every group of them with a liberty, as on every
\* board of a game.
InitHeuristic ==
    /\ \E S \in SUBSET StoneCells : \E f \in [S -> Players] :
           \E b \in {BoardWith(S, f)} :
               /\ \A p \in S : hasLiberties(b, p[1], p[2]).hasLiberty
               /\ board = b
    /\ currentPlayer = NewGame.currentPlayer
    /\ blackCaptures = NewGame.blackCaptures
    /\ whiteCaptures = NewGame.whiteCaptures
    /\ moveHistory = NewGame.moveHistory
    /\ passCount = NewGame.passCount
    /\ gameStatus = NewGame.gameStatus
    /\ koPosition = NewGame.koPosition
    /\ invalidMoveMessage = NewGame.invalidMoveMessage
    /\ lastOp = [op |-> "init", row |-> -1, col |-> -1]
    /\ prev = [state |-> NewGame, lastOp |-> [op |-> "init", row |-> -1, col |-> -1],
               before |-> Restorable(NewGame)]
    /\ steps = 0
    /\ pending = Null
    /\ search = NoSearch
    /\ sgf = Null
    /\ replies = <<>>

SpecHeuristic == InitHeuristic /\ [][NextHeuristic]_vars

\* ------------------------------------------------- vocabulary of the claims
PrevS == prev.state
LastCell == <<lastOp.row, lastOp.col>>

\* The last handler call was a placement that was accepted / rejected.
PlacementAccepted == lastOp.op = "place" /\ invalidMoveMessage = ""
PlacementRejected == lastOp.op = "place" /\ invalidMoveMessage # ""

Last(seq) == seq[Len(seq)]

\* The game state without the message shown to the user.
GameState(s) ==
    [board |-> s.board, currentPlayer |-> s.currentPlayer,
     blackCaptures |-> s.blackCaptures, whiteCaptures |-> s.whiteCaptures,
     moveHistory |-> s.moveHistory, passCount |-> s.passCount,
     gameStatus |-> s.gameStatus, koPosition |-> s.koPosition]

\* The stones that left the board in the last handler call.
Removed == {p \in Pos : PrevS.board[p] # EMPTY /\ board[p] = EMPTY}

\* The rules of Go stated on sets, independently of goRules.ts.
Touching(p, q) ==
    \/ p[1] = q[1] /\ (p[2] = q[2] + 1 \/ q[2] = p[2] + 1)
    \/ p[2] = q[2] /\ (p[1] = q[1] + 1 \/ q[1] = p[1] + 1)

RECURSIVE GroupFrom(_, _, _)
GroupFrom(b, color, G) ==
    LET G2 == G \cup {q \in Pos : b[q] = color /\ \E g \in G : Touching(g, q)}
    IN  IF G2 = G THEN G ELSE GroupFrom(b, color, G2)

\* The maximal connected set of stones of p's colour that contains p.
GroupOf(b, p) == GroupFrom(b, b[p], {p})

LibertiesOf(b, G) == {q \in Pos : b[q] = EMPTY /\ \E g \in G : Touching(g, q)}

\* The opponent stones that placing `player` at p leaves without liberty.
DeadAfter(b, p, player) ==
    LET placed == [b EXCEPT ![p] = player]
        next == {q \in Pos : Touching(p, q) /\ placed[q] # EMPTY /\ placed[q] # player}
    IN  UNION {LET G == GroupOf(placed, q)
               IN  IF LibertiesOf(placed, G) = {} THEN G ELSE {} : q \in next}

\* Suicide: after the placement and the removal of the dead opponent stones
\* the placed stone's group has no liberty, and nothing was captured.
IsSuicide(b, p, player) ==
    LET placed == [b EXCEPT ![p] = player]
        dead == DeadAfter(b, p, player)
        after == [q \in Pos |-> IF q \in dead THEN EMPTY ELSE placed[q]]
    IN  LibertiesOf(after, GroupOf(after, p)) = {} /\ dead = {}

\* ------------------------------------------------------------------ claims

C2_SuicideIffNoLibertyNoCapture ==
    lastOp.op = "isSuicideMove" =>
        LET suicide == IsSuicide(board, LastCell, lastOp.player)
        IN  /\ lastOp.result = suicide
            /\ (lastOp.message = "Suicide move not allowed") = suicide
            /\ lastOp.result => DeadAfter(board, LastCell, lastOp.player) = {}

\* C2 witness: the placed stone has no liberty of its own but captures, and
\* isSuicideMove answered false.
C2_Witness ==
    /\ lastOp.op = "isSuicideMove"
    /\ ~lastOp.result
    /\ lastOp.message = ""
    /\ DeadAfter(board, LastCell, lastOp.player) # {}
    /\ LET placed == [board EXCEPT ![LastCell] = lastOp.player]
       IN  LibertiesOf(placed, GroupOf(placed, LastCell)) = {}

\* C3: after an accepted placement koPosition is the cell of the captured
\* stone when exactly one stone left the board, and null otherwise.
C3_KoIffSingleCapture ==
    PlacementAccepted =>
        koPosition = IF Cardinality(Removed) = 1
                     THEN CHOOSE p \in Removed : TRUE
                     ELSE Null

\* C3 witness: an accepted placement that captured exactly one stone.
C3_Witness ==
    PlacementAccepted /\ Cardinality(Removed) = 1 /\ koPosition \in Removed

\* C4: a placement at k right after the placement that set koPosition to k
\* is rejected as a ko violation; a placement made while koPosition is null
\* (the ko cleared by a move elsewhere) is not rejected by the ko rule.
C4_KoOnlyNextMove ==
    /\ (/\ lastOp.op = "place"
        /\ prev.lastOp.op = "place"
        /\ PrevS.invalidMoveMessage = ""
        /\ PrevS.koPosition # Null
        /\ LastCell = PrevS.koPosition)
           => (invalidMoveMessage = "Ko rule violation"
               /\ GameState(Cur) = GameState(PrevS))
    /\ (lastOp.op = "place" /\ invalidMoveMessage = "Ko rule violation")
           => PrevS.koPosition = LastCell

\* C4 witness: k was the ko position, the opponent then played elsewhere,
\* which cleared it, and the placement at k that followed was accepted.
C4_Witness ==
    /\ PlacementAccepted
    /\ prev.lastOp.op = "place"
    /\ prev.before.koPosition = LastCell
    /\ PrevS.invalidMoveMessage = ""
    /\ PrevS.koPosition = Null

\* The rejection kind the precedence occupied, finished, ko, suicide gives
\* for a placement at p in state s ("" when none applies).
ExpectedRejection(s, p) ==
    IF s.board[p] # EMPTY THEN "Position already occupied"
    ELSE IF s.gameStatus = "Finished" THEN "Game is finished"
    ELSE IF s.koPosition = p THEN "Ko rule violation"
    ELSE IF IsSuicide(s.board, p, s.currentPlayer) THEN "Suicide move not allowed"
    ELSE ""

C6_RejectionChangesNothing ==
    PlacementRejected => GameState(Cur) = GameState(PrevS)

\* C6 witness: a placement rejected as suicide after a pass.
C6_Witness ==
    /\ PlacementRejected
    /\ invalidMoveMessage = "Suicide move not allowed"
    /\ passCount > 0

\* C7: the game becomes Finished only by a pass that is the second of two
\* consecutive passes.
C7_FinishedOnlyBySecondPass ==
    (gameStatus = "Finished" /\ PrevS.gameStatus = "Playing") =>
        /\ lastOp.op = "pass"
        /\ Len(moveHistory) >= 2
        /\ moveHistory[Len(moveHistory)].isPass
        /\ moveHistory[Len(moveHistory) - 1].isPass

\* C8: every pass flips currentPlayer and appends one pass record (row =
\* col = -1, captures 0), the pass that ends the game included; board and
\* capture counters are unchanged.
C8_PassFlipsAndRecords ==
    lastOp.op = "pass" =>
        /\ currentPlayer = Other(PrevS.currentPlayer)
        /\ moveHistory = Append(PrevS.moveHistory,
                                [player |-> PrevS.currentPlayer, row |-> -1,
                                 col |-> -1, captures |-> 0, isPass |-> TRUE])
        /\ board = PrevS.board
        /\ blackCaptures = PrevS.blackCaptures
        /\ whiteCaptures = PrevS.whiteCaptures

\* C8 witness: the pass that ended the game.
C8_Witness ==
    /\ lastOp.op = "pass"
    /\ gameStatus = "Finished"
    /\ PrevS.gameStatus = "Playing"
    /\ currentPlayer # PrevS.currentPlayer

\* C9: an accepted placement flips currentPlayer, resets passCount and
\* appends exactly one record: the mover, the target cell, and as captures
\* the number of stones that left the board.
C9_PlacementRecord ==
    PlacementAccepted =>
        /\ currentPlayer = Other(PrevS.currentPlayer)
        /\ passCount = 0
        /\ moveHistory = Append(PrevS.moveHistory,
                                [player |-> PrevS.currentPlayer,
                                 row |-> lastOp.row, col |-> lastOp.col,
                                 captures |-> Cardinality(Removed),
                                 isPass |-> FALSE])

\* C9 witness: an accepted placement after a pass that captured two stones.
C9_Witness ==
    /\ PlacementAccepted
    /\ PrevS.passCount = 1
    /\ Cardinality(Removed) = 2
    /\ Last(moveHistory).captures = 2

\* The remaining history played forward from a new game through
\* handleStonePlacement and handlePass.
PlayMove(s, move) ==
    IF move.isPass THEN handlePass(s) ELSE handleStonePlacement(s, move.row, move.col)

RECURSIVE PlayForward(_, _)
PlayForward(s, hist) ==
    IF hist = <<>>
    THEN s
    ELSE CHOOSE r \in {PlayForward(t, Tail(hist)) : t \in {PlayMove(s, Head(hist))}} : TRUE

\* C10: after undoMove, board, capture counters, koPosition and
\* currentPlayer are what playing the remaining history forward from a new
\* game produces.
C10_UndoEqualsForwardReplay ==
    (lastOp.op = "undo" /\ PrevS.moveHistory # <<>>) =>
        Restorable(Cur) = Restorable(PlayForward(NewGame, moveHistory))

\* The number of consecutive pass records at the end of a history.
RECURSIVE TrailingPasses(_)
TrailingPasses(hist) ==
    IF hist = <<>> \/ ~Last(hist).isPass
    THEN 0
    ELSE 1 + TrailingPasses(SubSeq(hist, 1, Len(hist) - 1))

\* C11: in every reachable state passCount is the number of consecutive
\* passes at the end of moveHistory (so undoing a move gives back the streak
\* that held before the move).
C11_PassCountIsTrailingStreak ==
    passCount = TrailingPasses(moveHistory)

\* C12: a game that is Finished stays Finished under every placement
\* attempt and every pass; it becomes Playing again only by undoMove or
\* resetGame, and undoMove in a Finished game always makes it Playing.
C12_FinishedUntilUndoOrReset ==
    PrevS.gameStatus = "Finished" =>
        /\ lastOp.op \in {"place", "pass"} => gameStatus = "Finished"
        /\ gameStatus = "Playing" => lastOp.op \in {"undo", "reset"}
        /\ lastOp.op = "undo" => gameStatus = "Playing"

\* C12 witness: a pass made in a Finished game (key P) left it Finished.
C12_Witness ==
    /\ PrevS.gameStatus = "Finished"
    /\ lastOp.op = "pass"
    /\ gameStatus = "Finished"
    /\ Len(moveHistory) = Len(PrevS.moveHistory) + 1

\* C13: undoMove called with an empty moveHistory changes no part of the
\* game state.
C13_UndoOnEmptyHistoryIsNoOp ==
    (lastOp.op = "undo" /\ PrevS.moveHistory = <<>>) => Cur = PrevS

\* C13 witness: undoMove was called with an empty history.
C13_Witness ==
    /\ lastOp.op = "undo"
    /\ PrevS.moveHistory = <<>>
    /\ moveHistory = <<>>
    /\ currentPlayer = PrevS.currentPlayer

\* Territory stated on sets, independently of calculateScore: the colours of
\* the stones that touch the maximal empty region R, and the empty cells
\* whose region is bordered by stones of exactly the colour `color`.
BorderColours(b, R) == {b[q] : q \in {x \in Pos : b[x] # EMPTY /\ \E g \in R : Touching(g, x)}}

TerritoryOf(b, color) ==
    {p \in Pos : b[p] = EMPTY /\ BorderColours(b, GroupOf(b, p)) = {color}}

\* C14: calculateScore counts as blackTerritory (whiteTerritory) exactly the
\* cells of the maximal empty regions whose bordering stones are all Black
\* (all White); a region that borders both colours, or no stone, counts for
\* neither.
C14_TerritoryByBorder ==
    lastOp.op = "calculateScore" =>
        /\ lastOp.result.blackTerritory = Cardinality(TerritoryOf(board, BLACK))
        /\ lastOp.result.whiteTerritory = Cardinality(TerritoryOf(board, WHITE))

\* C14 witness: a board with a Black region, a White region and a region
\* that borders both colours.
C14_Witness ==
    /\ lastOp.op = "calculateScore"
    /\ lastOp.result.blackTerritory >= 1
    /\ lastOp.result.whiteTerritory >= 1
    /\ \E p \in Pos : /\ board[p] = EMPTY
                      /\ BorderColours(board, GroupOf(board, p)) = {BLACK, WHITE}

\* The part of a colour's score that is not territory.
CaptureTerm(s, color) ==
    LET r == calculateScore(s)
    IN  IF color = BLACK THEN r.blackScore - r.blackTerritory
                         ELSE r.whiteScore - r.whiteTerritory

\* C15: a colour's score is its territory plus the opponent stones it has
\* captured: an accepted placement that takes k stones off the board raises
\* the mover's capture term by k and leaves the other colour's as it was.
C15_ScoreCreditsCapturer ==
    PlacementAccepted =>
        \A color \in Players :
            CaptureTerm(Cur, color) - CaptureTerm(PrevS, color)
                = IF color = PrevS.currentPlayer THEN Cardinality(Removed) ELSE 0

\* C16: on the empty board with no captures calculateScore returns
\* blackScore = 0 and whiteScore = 6.5 (komi, for White only).
C16_KomiForWhiteOnly ==
    (/\ lastOp.op = "calculateScore"
     /\ board = initializeBoard
     /\ blackCaptures = 0
     /\ whiteCaptures = 0)
        => /\ lastOp.result.blackScore = 0
           /\ 2 * lastOp.result.whiteScore = 13

LegalCells(s) == {p \in Pos : ExpectedRejection(s, p) = ""}

\* C18: makeRandomMove and makeHeuristicMove (any of them), called by
\* makeAIMove, return null exactly when no cell is a legal move, and a
\* coordinate otherwise; makeAIMove passes exactly when there is no legal
\* move.
C18_NullIffNoLegalMove ==
    lastOp.op = "ai" =>
        LET legal == LegalCells(PrevS)
        IN  /\ (Null \in lastOp.candidates) = (legal = {})
            /\ legal # {} => lastOp.candidates \subseteq Pos
            /\ legal = {} => lastOp.candidates = {Null}
            /\ (lastOp.aiMove = Null) = (legal = {})
            /\ Last(moveHistory).isPass = (legal = {})

\* C18 witness: the AI of either difficulty has just played the only legal
\* move, a capture whose stone had no liberty before the captured stones
\* were removed.
C18_Witness ==
    /\ lastOp.op = "ai"
    /\ lastOp.difficulty = "medium"
    /\ lastOp.aiMove # Null
    /\ LegalCells(PrevS) = {lastOp.aiMove}
    /\ LET placed == [PrevS.board EXCEPT ![lastOp.aiMove] = PrevS.currentPlayer]
       IN  LibertiesOf(placed, GroupOf(placed, lastOp.aiMove)) = {}
    /\ Last(moveHistory).captures >= 1
    /\ board[lastOp.aiMove] = PrevS.currentPlayer

\* C19: every coordinate makeRandomMove or makeHeuristicMove (any of them)
\* returns is a valid move of the state it was computed for, and the move
\* makeAIMove makes is accepted by handleStonePlacement: it is never on
\* an occupied cell, in a finished game, on the ko cell or a suicide.
C19_AIMoveIsLegal ==
    lastOp.op = "ai" =>
        /\ \A m \in lastOp.candidates :
              m # Null => /\ ExpectedRejection(PrevS, m) = ""
                          /\ isValidMove(PrevS, m[1], m[2])
        /\ lastOp.aiMove # Null =>
              /\ invalidMoveMessage = ""
              /\ PrevS.board[lastOp.aiMove] = EMPTY
              /\ PrevS.gameStatus = "Playing"
              /\ PrevS.koPosition # lastOp.aiMove
              /\ ~IsSuicide(PrevS.board, lastOp.aiMove, PrevS.currentPlayer)
              /\ board[lastOp.aiMove] = PrevS.currentPlayer
              /\ Len(moveHistory) = Len(PrevS.moveHistory) + 1
              /\ Last(moveHistory).row = lastOp.aiMove[1]
              /\ Last(moveHistory).col = lastOp.aiMove[2]

\* C19 witness: the AI has placed a stone in a state where the ko cell was
\* empty and forbidden.
C19_Witness ==
    /\ lastOp.op = "ai"
    /\ lastOp.aiMove # Null
    /\ PrevS.koPosition # Null
    /\ PrevS.board[PrevS.koPosition] = EMPTY
    /\ board[lastOp.aiMove] = PrevS.currentPlayer

\* The board after `player` has played at p on board b and the opponent
\* stones left without liberty were removed, by the rules stated on sets.
BoardAfter(b, p, player) ==
    LET placed == [b EXCEPT ![p] = player]
        dead == DeadAfter(b, p, player)
    IN  [q \in Pos |-> IF q \in dead THEN EMPTY ELSE placed[q]]

\* C20: when the worker of the hard difficulty answers after the board or
\* the player to move has changed, its move is validated against the
\* current state: a move that is not legal there is
\* discarded and leaves the board as it is, and a legal one is played on the
\* current board; the board the search was started with never replaces a
\* newer board.
C20_WorkerAnswerRevalidated ==
    (/\ lastOp.op = "workerAnswer"
     /\ (lastOp.snapshot # PrevS.board \/ lastOp.player # PrevS.currentPlayer)) =>
        IF /\ lastOp.player = PrevS.currentPlayer
           /\ ExpectedRejection(PrevS, LastCell) = ""
        THEN board = BoardAfter(PrevS.board, LastCell, PrevS.currentPlayer)
        ELSE board = PrevS.board

\* C21: the search of the hard difficulty terminates: once it has started
\* its playouts from a position with a valid move, the playouts end and the
\* search comes to its end, where a move is returned and placed.
C21_SearchTerminates ==
    (search.phase = "simulation") ~> (search.phase = "idle")

\* C22: a pass clears koPosition: after any pass koPosition is null.
C22_PassClearsKo ==
    lastOp.op = "pass" => koPosition = Null

C24_HumanWaitsForAI ==
    (/\ lastOp.op \in {"place", "pass"}
     /\ PrevS.currentPlayer = WHITE
     /\ PrevS.gameStatus = "Playing")
        => GameState(Cur) = GameState(PrevS)

\* The well-formed tokens of a record, in its order, as the clicks and the
\* passes they stand for.
WellFormed(record) ==
    LET kept == SelectSeq(record, LAMBDA text :
                    /\ \A k \in 1..Len(text) : text[k] \in 97..115
                    /\ text = <<>> \/ (Len(text) = 2 /\ text[1] - 97 \in Rows
                                                  /\ text[2] - 97 \in Rows))
    IN  [k \in 1..Len(kept) |->
            IF kept[k] = <<>> THEN PASS ELSE P(kept[k][2] - 97, kept[k][1] - 97)]

\* C25: loadSGF skips a malformed move token without aborting the load:
\* when the load of a record with such a token is over, the game is the one
\* in which every well-formed token of the record was played, in the order
\* of the record, from the new game.
C25_LoadSkipsMalformedTokens ==
    (/\ sgf # Null
     /\ sgf.moves = <<>>
     /\ Len(WellFormed(sgf.record)) < Len(sgf.record))
        => GameState(Cur) = GameState(Play(NewGame, WellFormed(sgf.record)))

\* C26: exportSGF writes one token for each record of the history, in its
\* order: the colour letter, then for a placement the column letter and the
\* row letter with 'a' for 0, and for a pass an empty text; loadSGF decodes
\* the token of a placement at (row, col) as a placement at (row, col), on
\* a board of 9, 13 or 19 lines, and the token of a pass as a pass.
C26_SGFRoundTrip ==
    lastOp.op = "exportSGF" =>
        LET history == lastOp.history
            tokens == lastOp.tokens
            loaded == lastOp.loaded
            letters == <<"a", "b", "c", "d", "e", "f", "g", "h", "i", "j",
                         "k", "l", "m", "n", "o", "p", "q", "r", "s">>
            ascii == [c \in {letters[i] : i \in 1..19} |->
                         96 + (CHOOSE i \in 1..19 : letters[i] = c)]
        IN  /\ Len(tokens) = Len(history)
            /\ Len(loaded) = Len(history)
            /\ \A k \in 1..Len(history) :
                  /\ tokens[k].color = (IF history[k].player = BLACK THEN "B" ELSE "W")
                  /\ IF history[k].isPass
                     THEN /\ tokens[k].text = <<>>
                          /\ loaded[k].kind = "pass"
                     ELSE /\ tokens[k].text = <<ascii[letters[history[k].col + 1]],
                                                ascii[letters[history[k].row + 1]]>>
                          /\ loaded[k].kind = "place"
                          /\ loaded[k].row = history[k].row
                          /\ loaded[k].col = history[k].col

\* C26 witness: a stone at the last line of the 19 x 19 board, first
\* column, followed by a pass, was exported and read back.
C26_Witness ==
    /\ lastOp.op = "exportSGF"
    /\ lastOp.boardSize = 19
    /\ Len(lastOp.history) = 2
    /\ lastOp.history[1].row = 18 /\ lastOp.history[1].col = 0
    /\ lastOp.history[2].isPass
    /\ lastOp.tokens[1].text = <<97, 115>>
    /\ lastOp.loaded[1] = [kind |-> "place", row |-> 18, col |-> 0]
    /\ lastOp.loaded[2].kind = "pass"

\* C27: checkCaptures, given the board with the stone just placed, sets to
\* EMPTY exactly the cells of the opponent groups that touch the placed
\* stone and have no liberty, and changes no other cell; the capture count
\* is the number of these cells, and capturedPositions holds each of them
\* once.
C27_CapturesExactlyDeadNeighbours ==
    lastOp.op = "checkCaptures" =>
        LET placed == [board EXCEPT ![LastCell] = lastOp.player]
            dead == DeadAfter(board, LastCell, lastOp.player)
            res == lastOp.result
        IN  /\ \A p \in Pos :
                  res.newBoard[p] = IF p \in dead THEN EMPTY ELSE placed[p]
            /\ res.captures = Cardinality(dead)
            /\ Len(res.capturedPositions) = Cardinality(dead)
            /\ {res.capturedPositions[i] : i \in 1..Len(res.capturedPositions)} = dead

\* C27 witness: the captured group has three stones and touches the placed
\* stone on two sides, and a stone of the placing player stays on the board.
C27_Witness ==
    /\ lastOp.op = "checkCaptures"
    /\ lastOp.result.captures = 3
    /\ Cardinality({p \in Pos : Touching(p, LastCell)
                                  /\ board[p] = Other(lastOp.player)
                                  /\ lastOp.result.newBoard[p] = EMPTY}) >= 2
    /\ \E p \in Pos : p # LastCell /\ lastOp.result.newBoard[p] = lastOp.player

\* C28: hasLiberties on a stone returns as group the maximal set of stones
\* of its colour connected to it, each cell once, and hasLiberty is true
\* exactly when a cell of the group has an EMPTY neighbour on the board; on
\* an EMPTY cell it returns an empty group and hasLiberty false.
C28_GroupAndLiberty ==
    lastOp.op = "hasLiberties" =>
        LET res == lastOp.result
            cells == {res.group[i] : i \in 1..Len(res.group)}
        IN  IF board[LastCell] = EMPTY
            THEN res.group = <<>> /\ res.hasLiberty = FALSE
            ELSE /\ cells = GroupOf(board, LastCell)
                 /\ Len(res.group) = Cardinality(cells)
                 /\ res.hasLiberty = (LibertiesOf(board, cells) # {})

\* C28 witness: the group is a block of four stones, in which a stone is
\* reached from two sides, and another stone of that colour is not part
\* of it.
C28_Witness ==
    /\ lastOp.op = "hasLiberties"
    /\ Len(lastOp.result.group) = 4
    /\ \E r \in Rows, c \in Rows :
          {lastOp.result.group[i] : i \in 1..4}
              = {<<r, c>>, <<r + 1, c>>, <<r, c + 1>>, <<r + 1, c + 1>>}
    /\ \E p \in Pos : /\ board[p] = board[LastCell]
                      /\ \A i \in 1..4 : lastOp.result.group[i] # p

\* C29: after any sequence of accepted placements, passes, undos and
\* resets, every group of stones on the board has at least one liberty.
C29_EveryGroupHasALiberty ==
    \A p \in Pos :
        board[p] # EMPTY => LibertiesOf(board, GroupOf(board, p)) # {}

\* C29 witness: a stone was placed where its group had no liberty until the
\* stones it captured were removed.
C29_Witness ==
    /\ PlacementAccepted
    /\ Removed # {}
    /\ LET placed == [PrevS.board EXCEPT ![LastCell] = PrevS.currentPlayer]
       IN  LibertiesOf(placed, GroupOf(placed, LastCell)) = {}
    /\ board[LastCell] = PrevS.currentPlayer

\* The sum of the captures fields of the records of a history.
RECURSIVE SumCaptures(_)
SumCaptures(hist) ==
    IF hist = <<>> THEN 0 ELSE Head(hist).captures + SumCaptures(Tail(hist))

\* C30: stones are conserved in every reachable state: the stones on the
\* board plus blackCaptures plus whiteCaptures are as many as the records
\* of moveHistory that are no pass, and blackCaptures + whiteCaptures is
\* the sum of the captures fields of the records.
C30_StonesConserved ==
    /\ Cardinality({p \in Pos : board[p] # EMPTY}) + blackCaptures + whiteCaptures
          = Cardinality({k \in 1..Len(moveHistory) : ~moveHistory[k].isPass})
    /\ blackCaptures + whiteCaptures = SumCaptures(moveHistory)

\* The records of a history that are no pass, in order.
NonPass(hist) == SelectSeq(hist, LAMBDA move : ~move.isPass)

C32_TurnsAlternate ==
    /\ \A k \in 1..(Len(moveHistory) - 1) :
           moveHistory[k].player # moveHistory[k + 1].player
    /\ moveHistory # <<>> => moveHistory[1].player = BLACK
    /\ currentPlayer = IF moveHistory = <<>>
                       THEN BLACK
                       ELSE Other(Last(moveHistory).player)

\* C33: the legality query and the placement agree: in every reachable
\* state and for every cell, isValidMove(row, col) is true if and only if
\* handleStonePlacement(row, col) is accepted, that is, changes the board;
\* evaluating the query is no step of the game.
C33_ValidIffAccepted ==
    lastOp.op = "place" =>
        /\ lastOp.valid <=> board # PrevS.board
        /\ lastOp.valid <=> invalidMoveMessage = ""
        /\ lastOp.valid <=> Len(moveHistory) = Len(PrevS.moveHistory) + 1

\* C33 witness: a click on the empty cell of the ko, which isValidMove had
\* answered with false, was rejected.
C33_Witness ==
    /\ lastOp.op = "place"
    /\ ~lastOp.valid
    /\ PrevS.board[LastCell] = EMPTY
    /\ PrevS.koPosition = LastCell
    /\ invalidMoveMessage = "Ko rule violation"
    /\ board = PrevS.board

\* C39: reset from any reachable state yields the new-game state: an empty
\* board of the configured size, Black to move, both capture counters zero,
\* an empty move history, passCount zero, gameStatus Playing and koPosition
\* null.
C39_ResetYieldsNewGame ==
    lastOp.op = "reset" =>
        /\ DOMAIN board = Pos
        /\ \A p \in Pos : board[p] = EMPTY
        /\ currentPlayer = BLACK
        /\ blackCaptures = 0
        /\ whiteCaptures = 0
        /\ moveHistory = <<>>
        /\ passCount = 0
        /\ gameStatus = "Playing"
        /\ koPosition = Null

\* C39 witness: the game that was reset had stones on the board, a capture
\* counted, a ko position and White to move.
C39_Witness ==
    /\ lastOp.op = "reset"
    /\ \E p \in Pos : PrevS.board[p] # EMPTY
    /\ PrevS.blackCaptures + PrevS.whiteCaptures > 0
    /\ PrevS.koPosition # Null
    /\ PrevS.currentPlayer = WHITE
    /\ PrevS.moveHistory # <<>>
    /\ board = initializeBoard

\* The opponent stones that have no other stone of their colour next to
\* them and whose only liberty on board b is the empty cell p.
LoneStonesAt(b, p, color) ==
    {q \in Pos : /\ b[q] = Other(color)
                 /\ GroupOf(b, q) = {q}
                 /\ LibertiesOf(b, {q}) = {p}}

\* A stone placed with a capture on the previous move has taken every
\* stone of the empty region it touches, so that region is bordered by
\* stones of its own colour only. The lone stone next to the empty cell p
\* was not placed so when the region of p touches a stone of color.
NotPlacedByCapture(b, p, color) == color \in BorderColours(b, GroupOf(b, p))

\* C34: tryPlay of GoGame.jsx rejects a placement only for an occupied
\* cell, a suicide, or an immediate ko recapture of a single stone: a
\* placement that fills the last liberty of a lone opponent stone which was
\* not itself placed by a capture on the previous move is legal and
\* returns the board with that stone removed and captures = 1.
C34_LoneStoneIsCaptured ==
    lastOp.op = "tryPlay" =>
        \A q \in LoneStonesAt(board, LastCell, lastOp.color) :
            (/\ board[LastCell] = EMPTY
             /\ DeadAfter(board, LastCell, lastOp.color) = {q}
             /\ NotPlacedByCapture(board, LastCell, lastOp.color))
            => /\ lastOp.result.legal
               /\ lastOp.result.captures = 1
               /\ lastOp.result.board
                     = [board EXCEPT ![LastCell] = lastOp.color, ![q] = EMPTY]

\* C35: in computer mode of the GoGame component of sound.ts, the AI reply
\* scheduled by the timer after a human (Black) placement is computed on,
\* and applied to, the state that results from that placement: the reply is
\* a White stone, and after it is applied the human's stone is still on the
\* board unless the reply captured it.
C35_ReplyFollowsPlacement ==
    (/\ lastOp.op = "reply"
     /\ prev.lastOp.op = "place"
     /\ prev.lastOp.valid
     /\ PrevS.currentPlayer = WHITE)
    => /\ lastOp.player = WHITE
       /\ lastOp.kind = "place" =>
             /\ ExpectedRejection(PrevS, LastCell) = ""
             /\ board = BoardAfter(PrevS.board, LastCell, WHITE)
             /\ Last(moveHistory).player = WHITE
       /\ \/ board[<<prev.lastOp.row, prev.lastOp.col>>] = BLACK
          \/ <<prev.lastOp.row, prev.lastOp.col>> \in Removed

\* The win rate of child a is higher than that of child b.
HigherWinRate(a, b) ==
    a.wins * (IF b.visits = 0 THEN 1 ELSE b.visits)
        > b.wins * (IF a.visits = 0 THEN 1 ELSE a.visits)

HeuristicCall == [NewGame EXCEPT !.board = board, !.currentPlayer = lastOp.player]

\* The star-point shortcut applies: fewer stones than Math.min(8, boardSize)
\* and a star point that is a legal move.
StarPointShortcut(s) ==
    /\ Cardinality({p \in Pos : s.board[p] # EMPTY})
          < (IF 8 < BoardSize THEN 8 ELSE BoardSize)
    /\ \E k \in 1..Len(STAR_POINTS) : STAR_POINTS[k] \in LegalCells(s)

\* The score evaluateMove gives the move p of the player to move in s.
ScoreOf(s, p) ==
    evaluateMove(s.board, p[1], p[2], s.currentPlayer, Other(s.currentPlayer))

\* p comes before q in the row-major scan.
ScanBefore(p, q) == p[1] < q[1] \/ (p[1] = q[1] /\ p[2] < q[2])

\* C37: when makeHeuristicMove evaluates the board by score (no star-point
\* shortcut applies), it returns a legal move whose evaluateMove score is
\* maximal among all legal moves, and among several moves with the maximal
\* score it returns the first one in row-major scan order.
C37_FirstBestScore ==
    (/\ lastOp.op = "makeHeuristicMove"
     /\ ~StarPointShortcut(HeuristicCall)
     /\ LegalCells(HeuristicCall) # {})
    => /\ lastOp.move \in LegalCells(HeuristicCall)
       /\ \A q \in LegalCells(HeuristicCall) :
              /\ ScoreOf(HeuristicCall, q) <= ScoreOf(HeuristicCall, lastOp.move)
              /\ ScoreOf(HeuristicCall, q) = ScoreOf(HeuristicCall, lastOp.move)
                    => ~ScanBefore(q, lastOp.move)

\* What the handlers and the random strategy read of a game state: two
\* states equal in it are continued by the same moves.
Position(s) ==
    [board |-> s.board, currentPlayer |-> s.currentPlayer,
     koPosition |-> s.koPosition, passCount |-> s.passCount,
     gameStatus |-> s.gameStatus]

\* The positions the game was in before its last move, read off
\* moveHistory.
EarlierPositions ==
    {Position(PlayForward(NewGame, SubSeq(moveHistory, 1, k))) :
        k \in 0..(Len(moveHistory) - 1)}

\* C38: in ai-vs-ai mode with the random strategy every game eventually
\* reaches gameStatus Finished, the AI timer firing as long as it is set.
\* The moves open to the AI depend on the position alone, so a game that
\* is Playing in a position it was in before can make the same moves again
\* and come back to it for ever; if every game ends, no game that is
\* Playing is in a position for the second time.
C38_EveryGameEnds ==
    (lastOp.op = "ai" /\ gameStatus = "Playing") =>
        Position(Cur) \notin EarlierPositions

====
